---- MODULE Spec2Model ----
(***************************************************************************)
(* WhatsAppExplorer: the ZipHandler (archive extraction, LRU cache of     *)
(* object URLs) of src/unnamed/part_000 and the MessageParser of          *)
(* src/src/messageParser.js as state machines.                            *)
(*                                                                         *)
(* JavaScript strings are modelled as sequences of one-character strings,  *)
(* so that split, endsWith and toLowerCase are computed and not assumed.   *)
(***************************************************************************)
EXTENDS Integers, Sequences, FiniteSets, TLC

\* ------------------------------------------------------------------ bounds
MaxCapacity == 2       \* largest configured options.maxCacheSize tried
MaxUrls == 3           \* number of URL.createObjectURL calls in one run
MaxPending == 1        \* loadZip calls suspended at their await at once
MaxPreload == 2        \* length of the list handed to preloadMedia
MaxMissing == 10002    \* distinct absent filenames requested in a row
MaxLines == 2          \* lines of a transcript handed to parse

\* the longest list of messages handed to getParticipants and calculateStats
MaxMessages == 3
\* the unsubscribe functions subscribe has returned
MaxSubscriptions == 2
\* loadZip calls suspended at once when calls overlap
MaxOverlapping == 2

\* ------------------------------------------------------- program constants
DefaultMaxSize == 50
\* the distinct missing names after which the warning is expected
MissingLookups == 10001

\* ------------------------------------------------------------ string helpers
UpperChars == <<"A","B","C","D","E","F","G","H","I","J","K","L","M",
                "N","O","P","Q","R","S","T","U","V","W","X","Y","Z">>
LowerChars == <<"a","b","c","d","e","f","g","h","i","j","k","l","m",
                "n","o","p","q","r","s","t","u","v","w","x","y","z">>

\* String.prototype.toLowerCase
toLowerCase(s) ==
    [i \in 1..Len(s) |->
        IF \E k \in 1..Len(UpperChars) : UpperChars[k] = s[i]
        THEN LowerChars[CHOOSE k \in 1..Len(UpperChars) : UpperChars[k] = s[i]]
        ELSE s[i]]

\* s.split(sep).pop() for a one-character separator: what follows the last
\* occurrence of sep, the whole string when sep does not occur
splitPop(s, sep) ==
    LET at == {i \in 1..Len(s) : s[i] = sep}
    IN  IF at = {} THEN s
        ELSE LET k == CHOOSE i \in at : \A j \in at : j <= i
             IN  SubSeq(s, k + 1, Len(s))

\* String.prototype.endsWith
endsWith(s, suffix) ==
    /\ Len(s) >= Len(suffix)
    /\ SubSeq(s, Len(s) - Len(suffix) + 1, Len(s)) = suffix

\* ---------------------------------------------------------------- file names
\* the file names the archives hold and the consumer asks for
fn ==
    [a_jpg |-> <<"a",".","j","p","g">>,
     b_PNG |-> <<"b",".","P","N","G">>,
     c_mp4 |-> <<"c",".","m","p","4">>,
     q_gif |-> <<"q",".","g","i","f">>,
     t_txt |-> <<"t",".","t","x","t">>,
     u_txt |-> <<"u",".","t","x","t">>,
     n_xyz |-> <<"n",".","x","y","z">>,
     e_txt |-> <<"e",".","t","x","t">>,
     T_TXT |-> <<"T",".","T","X","T">>,
     empty |-> <<>>]

\* the names a consumer asks for: three that some archive holds, one that no
\* archive holds, and the empty name
Requested == {fn.a_jpg, fn.b_PNG, fn.c_mp4, fn.q_gif, fn.empty}
\* the keys handed to the cache itself
CacheKeys == {fn.a_jpg, fn.b_PNG, fn.c_mp4}
\* the names preloadMedia is handed lists of
Preloaded == {fn.a_jpg, fn.b_PNG}

\* ------------------------------------------------------------------ archives
\* A Uint8Array: its identity and its bytes
Data(id, bytes) == [id |-> id, bytes |-> bytes]

\* the arguments handed to loadZip: two Blobs holding a readable archive, a
\* Blob whose bytes are no archive, and two values that are no Blob
FileA == [blob |-> TRUE, zip |-> "A"]
FileB == [blob |-> TRUE, zip |-> "B"]
FileCorrupt == [blob |-> TRUE, zip |-> "corrupt"]
BlobFiles == {FileA, FileB, FileCorrupt}
Files == BlobFiles \cup {[blob |-> FALSE, zip |-> "null"],
                         [blob |-> FALSE, zip |-> "not a blob"]}
\* with the Blobs holding the archives with several, empty or no transcripts
ArchiveFiles ==
    {FileA, FileB} \cup {[blob |-> TRUE, zip |-> k] : k \in {"C", "D", "E", "F"}}
AllBlobFiles == BlobFiles \cup ArchiveFiles

\* fflate.unzipSync: throws on bytes that are no archive
unzipThrows(file) == file \notin ArchiveFiles

\* what fflate.unzipSync returns for each archive: the entries in the order
\* Object.entries enumerates them, [path, data]
unzipSync(file) ==
    CASE file.zip = "A" ->
          << [path |-> <<"m","/">> \o fn.a_jpg, data |-> Data(1, <<1, 2, 3>>)],
             [path |-> fn.t_txt,               data |-> Data(2, <<72, 105>>)],
             [path |-> fn.b_PNG,               data |-> Data(3, <<4>>)],
             [path |-> fn.c_mp4,               data |-> Data(4, <<5, 6>>)],
             [path |-> fn.n_xyz,               data |-> Data(5, <<7>>)] >>
      [] file.zip = "B" ->
          << [path |-> fn.a_jpg,               data |-> Data(6, <<8, 9>>)],
             [path |-> <<"x","/">> \o fn.u_txt, data |-> Data(7, <<66>>)] >>
    \* two transcript-like entries, a directory entry, two entries with one
    \* basename and an upper-case .TXT
      [] file.zip = "C" ->
          << [path |-> <<"m","/">>,             data |-> Data(8, <<>>)],
             [path |-> fn.t_txt,                data |-> Data(9, <<72, 105>>)],
             [path |-> <<"d","/">> \o fn.u_txt, data |-> Data(10, <<66>>)],
             [path |-> fn.a_jpg,                data |-> Data(11, <<1>>)],
             [path |-> <<"x","/">> \o fn.a_jpg, data |-> Data(12, <<2, 3>>)],
             [path |-> fn.T_TXT,                data |-> Data(13, <<67>>)],
             [path |-> fn.n_xyz,                data |-> Data(14, <<7>>)] >>
    \* an empty transcript-like entry ahead of two that are not empty
      [] file.zip = "D" ->
          << [path |-> fn.e_txt,                data |-> Data(15, <<>>)],
             [path |-> fn.t_txt,                data |-> Data(16, <<72, 105>>)],
             [path |-> fn.b_PNG,                data |-> Data(17, <<4>>)],
             [path |-> fn.u_txt,                data |-> Data(18, <<66>>)] >>
    \* an empty transcript and one picture
      [] file.zip = "E" ->
          << [path |-> fn.e_txt,                data |-> Data(19, <<>>)],
             [path |-> fn.a_jpg,                data |-> Data(20, <<1, 2, 3>>)] >>
    \* no transcript: a picture, a video and a file of unknown extension
      [] file.zip = "F" ->
          << [path |-> fn.a_jpg,                data |-> Data(21, <<1, 2, 3>>)],
             [path |-> fn.c_mp4,                data |-> Data(22, <<4, 5, 6>>)],
             [path |-> fn.n_xyz,                data |-> Data(23, <<7>>)] >>

\* TextDecoder('utf-8').decode for one- and two-byte sequences; any other
\* byte decodes to U+FFFD
RECURSIVE decode(_)
decode(bytes) ==
    IF bytes = <<>> THEN <<>>
    ELSE IF bytes[1] < 128 THEN <<bytes[1]>> \o decode(Tail(bytes))
    ELSE IF /\ bytes[1] \in 194..223
            /\ Len(bytes) >= 2
            /\ bytes[2] \in 128..191
         THEN <<(bytes[1] - 192) * 64 + (bytes[2] - 128)>>
                  \o decode(SubSeq(bytes, 3, Len(bytes)))
         ELSE <<65533>> \o decode(Tail(bytes))

\* a nullable field: <<>> is null, <<v>> holds v
None == <<>>
Some(v) == <<v>>
\* JavaScript truthiness of a nullable string: null and "" are falsy
Truthy(opt) == opt # None /\ opt[1] # <<>>

\* a URL is a positive number; 0 stands for null where a URL is expected
NoUrl == 0

\* ---------------------------------------------------------------- the state
VARIABLES
    maxCacheSize,   \* ZipHandler.maxCacheSize = LRUCache.maxSize
    cache,          \* LRUCache.cache: filename -> URL
    accessOrder,    \* LRUCache.accessOrder
    mediaFiles,     \* ZipHandler.mediaFiles: filename -> compressed data
    chatContent,    \* ZipHandler.chatContent (nullable)
    chatFilename,   \* ZipHandler.chatFilename (nullable)
    isLoaded,       \* ZipHandler.isLoaded
    created,        \* number of URLs URL.createObjectURL has returned
    revoked,        \* revoked[u]: calls of URL.revokeObjectURL(u)
    urlLog,         \* the create/revoke calls of the last operation, in order
    useOrder,       \* history: cached names, by their most recent resolve
    nextMissing,    \* history: missing0 .. missing(nextMissing-1) were
                    \* resolved since the last clear or load
    alertCalls,     \* calls of window.alert made by the handler
    pending,        \* loadZip calls suspended at await file.arrayBuffer()
    failedLines,    \* MessageParser.failedLines
    input,          \* the argument the parser is called with
    state,          \* StateManager.state
    subscribers,    \* StateManager.subscribers: event -> callbacks, in the
                    \* order they were added
    unsubscribes,   \* the unsubscribe functions returned so far, each by
                    \* the event and the callback it holds
    calls,          \* the calls of callbacks made by the last operation
    last            \* the last operation, its argument and what it returned

vars == <<maxCacheSize, cache, accessOrder, mediaFiles, chatContent,
          chatFilename, isLoaded, created, revoked, urlLog, useOrder,
          nextMissing, alertCalls, pending, failedLines, input,
          state, subscribers, unsubscribes, calls, last>>

\* the variables of the state manager
manager == <<state, subscribers, unsubscribes, calls>>

\* the handler and the browser's URL registry as one value, so that the
\* methods below are functions from state to state
Self ==
    [maxSize |-> maxCacheSize, cache |-> cache, accessOrder |-> accessOrder,
     mediaFiles |-> mediaFiles, chatContent |-> chatContent,
     chatFilename |-> chatFilename, isLoaded |-> isLoaded,
     created |-> created, revoked |-> revoked, urlLog |-> <<>>,
     useOrder |-> useOrder, ret |-> NoUrl]

Commit(z) ==
    /\ cache' = z.cache
    /\ accessOrder' = z.accessOrder
    /\ mediaFiles' = z.mediaFiles
    /\ chatContent' = z.chatContent
    /\ chatFilename' = z.chatFilename
    /\ isLoaded' = z.isLoaded
    /\ created' = z.created
    /\ revoked' = z.revoked
    /\ urlLog' = z.urlLog
    /\ useOrder' = z.useOrder
    /\ UNCHANGED <<maxCacheSize, alertCalls, failedLines, input, manager>>

Without(f, k) == [x \in DOMAIN f \ {k} |-> f[x]]
Drop(seq, key) == SelectSeq(seq, LAMBDA k : k # key)
Keep(seq, keys) == SelectSeq(seq, LAMBDA k : k \in keys)
Range(f) == {f[x] : x \in DOMAIN f}

\* -------------------------------------------------------------- browser URL
createObjectURL(z) ==
    [z EXCEPT !.created = @ + 1,
              !.revoked = Append(@, 0),
              !.urlLog = Append(@, <<"create", z.created + 1>>),
              !.ret = z.created + 1]

revokeObjectURL(z, url) ==
    [z EXCEPT !.revoked[url] = @ + 1,
              !.urlLog = Append(@, <<"revoke", url>>)]

\* ------------------------------------------------------------------ LRUCache
\* LRUget that does not move the key to the end of the access order
LRUget_noTouch(z, key) ==
    IF key \notin DOMAIN z.cache
    THEN [z EXCEPT !.ret = NoUrl]
    ELSE [z EXCEPT !.ret = z.cache[key]]

LRUget(z, key) ==
    IF key \notin DOMAIN z.cache
    THEN [z EXCEPT !.ret = NoUrl]
    ELSE [z EXCEPT !.accessOrder = Append(Drop(@, key), key),
                   !.ret = z.cache[key]]

\* LRUset evicting only once the cache is over its size (> for >=)
LRUset_offByOne(z, key, value) ==
    IF key \in DOMAIN z.cache
    THEN LRUget([z EXCEPT !.cache[key] = value], key)
    ELSE LET room ==
                 IF Cardinality(DOMAIN z.cache) > z.maxSize
                 THEN LET lru == Head(z.accessOrder)
                      IN  revokeObjectURL(
                              [z EXCEPT !.accessOrder = Tail(@),
                                        !.cache = Without(@, lru)],
                              z.cache[lru])
                 ELSE z
         IN  [room EXCEPT !.cache = (key :> value) @@ @,
                          !.accessOrder = Append(@, key)]

\* set(key, value, onEvict) with the callback getMediaURL passes, which
\* revokes the evicted URL
LRUset(z, key, value) ==
    IF key \in DOMAIN z.cache
    THEN LRUget([z EXCEPT !.cache[key] = value], key)
    ELSE LET room ==
                 IF Cardinality(DOMAIN z.cache) >= z.maxSize
                 THEN IF z.accessOrder = <<>>
                      THEN z   \* shift() gives undefined: nothing to evict
                      ELSE LET lru == Head(z.accessOrder)
                               z1 == [z EXCEPT !.accessOrder = Tail(@),
                                               !.cache = Without(@, lru)]
                           IN  IF lru \in DOMAIN z.cache
                               THEN revokeObjectURL(z1, z.cache[lru])
                               ELSE z1
                 ELSE z
         IN  [room EXCEPT !.cache = (key :> value) @@ @,
                          !.accessOrder = Append(@, key)]

\* clear(onEvict) with the callback ZipHandler.clear passes: the Map is
\* walked in insertion order, which is the order of the URL numbers, every
\* entry having been inserted with the URL created for it
RECURSIVE revokeAll(_, _)
revokeAll(z, urls) ==
    IF urls = {} THEN z
    ELSE LET u == CHOOSE x \in urls : \A y \in urls : x <= y
         IN  revokeAll(revokeObjectURL(z, u), urls \ {u})

\* LRUclear emptying the cache without calling onEvict
LRUclear_noRevoke(z) ==
    [z EXCEPT !.cache = <<>>, !.accessOrder = <<>>]

LRUclear(z) ==
    [revokeAll(z, Range(z.cache)) EXCEPT !.cache = <<>>, !.accessOrder = <<>>]

\* ---------------------------------------------------------------- ZipHandler
mediaExtensions ==
    { <<"j","p","g">>, <<"j","p","e","g">>, <<"p","n","g">>, <<"g","i","f">>,
      <<"w","e","b","p">>,
      <<"m","p","4">>, <<"3","g","p">>, <<"m","o","v">>, <<"a","v","i">>,
      <<"m","k","v">>, <<"w","e","b","m">>,
      <<"o","p","u","s">>, <<"m","p","3">>, <<"a","a","c">>, <<"m","4","a">>,
      <<"w","a","v">>,
      <<"p","d","f">>, <<"d","o","c">>, <<"d","o","c","x">>, <<"x","l","s">>,
      <<"x","l","s","x">>, <<"p","p","t">>, <<"p","p","t","x">>,
      <<"t","x","t">>, <<"v","c","f">> }

isMediaFile(filename) ==
    IF filename = <<>> THEN FALSE
    ELSE toLowerCase(splitPop(filename, ".")) \in mediaExtensions

\* history only: the cached names in the order of their most recent resolve
Used(z, filename) ==
    [z EXCEPT !.useOrder = Keep(Append(Drop(@, filename), filename),
                                DOMAIN z.cache)]
Forget(z) == [z EXCEPT !.useOrder = Keep(@, DOMAIN z.cache)]

\* getMediaURL making room before it creates the URL: the least recently
\* used entry is released first
getMediaURL_releaseFirst(z, filename) ==
    IF filename = <<>> \/ filename \notin DOMAIN z.mediaFiles
    THEN [z EXCEPT !.ret = NoUrl]
    ELSE LET hit == LRUget(z, filename)
         IN  IF hit.ret # NoUrl
             THEN Used(hit, filename)
             ELSE LET room ==
                          IF Cardinality(DOMAIN hit.cache) >= hit.maxSize
                          THEN LET lru == Head(hit.accessOrder)
                               IN  revokeObjectURL(
                                       [hit EXCEPT !.accessOrder = Tail(@),
                                                   !.cache = Without(@, lru)],
                                       hit.cache[lru])
                          ELSE hit
                      made == createObjectURL(room)
                      url == made.ret
                  IN  Used([LRUset(made, filename, url) EXCEPT !.ret = url],
                           filename)

\* getMediaURL that never looks into the cache
getMediaURL_noCacheCheck(z, filename) ==
    IF filename = <<>> \/ filename \notin DOMAIN z.mediaFiles
    THEN [z EXCEPT !.ret = NoUrl]
    ELSE LET made == createObjectURL(z)
             url == made.ret
         IN  Used([LRUset(made, filename, url) EXCEPT !.ret = url], filename)

\* getMediaURL without the mediaFiles.has test: a Blob is built from the
\* undefined payload of an absent name
getMediaURL_noHasCheck(z, filename) ==
    IF filename = <<>>
    THEN [z EXCEPT !.ret = NoUrl]
    ELSE LET hit == LRUget(z, filename)
         IN  IF hit.ret # NoUrl
             THEN Used(hit, filename)
             ELSE LET made == createObjectURL(hit)
                      url == made.ret
                  IN  Used([LRUset(made, filename, url) EXCEPT !.ret = url],
                           filename)

getMediaURL(z, filename) ==
    IF filename = <<>> \/ filename \notin DOMAIN z.mediaFiles
    THEN [z EXCEPT !.ret = NoUrl]
    ELSE LET hit == LRUget(z, filename)
         IN  IF hit.ret # NoUrl
             THEN Used(hit, filename)
             ELSE LET made == createObjectURL(hit)
                      url == made.ret
                  IN  Used([LRUset(made, filename, url) EXCEPT !.ret = url],
                           filename)

\* preloadMedia: z.ret is the list of results
RECURSIVE preloadLoop(_, _, _)
preloadLoop(z, filenames, results) ==
    IF filenames = <<>> THEN [z EXCEPT !.ret = results]
    ELSE LET r == getMediaURL(z, Head(filenames))
         IN  preloadLoop(r, Tail(filenames),
                 Append(results, [filename |-> Head(filenames),
                                  url |-> r.ret,
                                  cached |-> r.ret # NoUrl]))

preloadMedia(z, filenames) == preloadLoop(z, filenames, <<>>)

\* evictFromCache dropping the entry without revoking its URL
evictFromCache_noRevoke(z, filename) ==
    LET got == LRUget(z, filename)
    IN  IF got.ret # NoUrl
        THEN Forget([got EXCEPT !.cache = Without(@, filename),
                                !.accessOrder = Drop(@, filename)])
        ELSE got

\* evictFromCache taking the least recently used key out of the access order
\* (shift) instead of the evicted one
evictFromCache_shift(z, filename) ==
    LET got == LRUget(z, filename)
    IN  IF got.ret # NoUrl
        THEN Forget([revokeObjectURL(got, got.ret)
                        EXCEPT !.cache = Without(@, filename),
                               !.accessOrder = Tail(@)])
        ELSE got

evictFromCache(z, filename) ==
    LET got == LRUget(z, filename)
    IN  IF got.ret # NoUrl
        THEN Forget([revokeObjectURL(got, got.ret)
                        EXCEPT !.cache = Without(@, filename),
                               !.accessOrder = Drop(@, filename)])
        ELSE got

clear(z) ==
    [Forget(LRUclear(z)) EXCEPT !.mediaFiles = <<>>,
                                !.chatContent = None,
                                !.chatFilename = None,
                                !.isLoaded = FALSE]

\* the loop of loadZip ignoring every .txt entry that follows the transcript
RECURSIVE processEntries_ignoreLaterTxt(_, _)
processEntries_ignoreLaterTxt(z, entries) ==
    IF entries = <<>> THEN z
    ELSE LET path == Head(entries).path
             data == Head(entries).data
             filename == splitPop(path, "/")
             z1 == IF endsWith(filename, <<".","t","x","t">>)
                   THEN IF ~Truthy(z.chatContent)
                        THEN [z EXCEPT
                                 !.chatContent = Some(decode(data.bytes)),
                                 !.chatFilename = Some(filename)]
                        ELSE z
                   ELSE IF isMediaFile(filename)
                        THEN [z EXCEPT !.mediaFiles = (filename :> data) @@ @]
                        ELSE z
         IN  processEntries_ignoreLaterTxt(z1, Tail(entries))

\* the loop of loadZip over Object.entries(unzipped)
RECURSIVE processEntries(_, _)
processEntries(z, entries) ==
    IF entries = <<>> THEN z
    ELSE LET path == Head(entries).path
             data == Head(entries).data
             filename == splitPop(path, "/")
             z1 == IF endsWith(filename, <<".","t","x","t">>)
                      /\ ~Truthy(z.chatContent)
                   THEN [z EXCEPT !.chatContent = Some(decode(data.bytes)),
                                  !.chatFilename = Some(filename)]
                   ELSE IF isMediaFile(filename)
                        THEN [z EXCEPT !.mediaFiles = (filename :> data) @@ @]
                        ELSE z
         IN  processEntries(z1, Tail(entries))

\* loadZip clearing the previous data before it has the archive extracted
loadZipAfterAwait_clearFirst(z, file, fflate) ==
    IF ~fflate
    THEN [clear(z) EXCEPT !.ret =
             [success |-> FALSE,
              error |-> "Failed to load ZIP: fflate library not loaded"]]
    ELSE IF unzipThrows(file)
    THEN [clear(z) EXCEPT !.ret =
             [success |-> FALSE, error |-> "Failed to load ZIP: Corrupt ZIP"]]
    ELSE LET z1 == processEntries(clear(z), unzipSync(file))
             z2 == [z1 EXCEPT !.isLoaded = TRUE]
         IN  [z2 EXCEPT !.ret =
                 [success |-> TRUE,
                  chatFound |-> Truthy(z2.chatContent),
                  chatFilename |-> z2.chatFilename,
                  mediaCount |-> Cardinality(DOMAIN z2.mediaFiles),
                  mediaFiles |-> DOMAIN z2.mediaFiles]]

\* loadZip populating the new archive over the previous data
loadZipAfterAwait_noClear(z, file, fflate) ==
    IF ~fflate
    THEN [z EXCEPT !.ret =
             [success |-> FALSE,
              error |-> "Failed to load ZIP: fflate library not loaded"]]
    ELSE IF unzipThrows(file)
    THEN [z EXCEPT !.ret =
             [success |-> FALSE, error |-> "Failed to load ZIP: Corrupt ZIP"]]
    ELSE LET z1 == processEntries(z, unzipSync(file))
             z2 == [z1 EXCEPT !.isLoaded = TRUE]
         IN  [z2 EXCEPT !.ret =
                 [success |-> TRUE,
                  chatFound |-> Truthy(z2.chatContent),
                  chatFilename |-> z2.chatFilename,
                  mediaCount |-> Cardinality(DOMAIN z2.mediaFiles),
                  mediaFiles |-> DOMAIN z2.mediaFiles]]

\* loadZip from its await to its end: the try block.  fflate tells whether
\* window.fflate is there; z.ret is the result, or the error thrown
loadZipAfterAwait(z, file, fflate) ==
    IF ~fflate
    THEN [z EXCEPT !.ret =
             [success |-> FALSE,
              error |-> "Failed to load ZIP: fflate library not loaded"]]
    ELSE IF unzipThrows(file)
    THEN [z EXCEPT !.ret =
             [success |-> FALSE, error |-> "Failed to load ZIP: Corrupt ZIP"]]
    ELSE LET z1 == processEntries(clear(z), unzipSync(file))
             z2 == [z1 EXCEPT !.isLoaded = TRUE]
         IN  [z2 EXCEPT !.ret =
                 [success |-> TRUE,
                  chatFound |-> Truthy(z2.chatContent),
                  chatFilename |-> z2.chatFilename,
                  mediaCount |-> Cardinality(DOMAIN z2.mediaFiles),
                  mediaFiles |-> DOMAIN z2.mediaFiles]]

getCacheStats ==
    [cacheSize |-> Cardinality(DOMAIN cache),
     maxCacheSize |-> maxCacheSize,
     totalMedia |-> Cardinality(DOMAIN mediaFiles)]

\* getMemoryEstimate counting one byte for a character of the transcript
getMemoryEstimate_byteAChar(z) ==
    LET RECURSIVE total(_)
        total(names) ==
            IF names = {} THEN 0
            ELSE LET name == CHOOSE f \in names : TRUE
                 IN  Len(z.mediaFiles[name].bytes) + total(names \ {name})
    IN  (IF Truthy(z.chatContent) THEN Len(z.chatContent[1]) ELSE 0)
            + total(DOMAIN z.mediaFiles)

\* chatContent.length * 2 and the byteLength of every value of mediaFiles
getMemoryEstimate(z) ==
    LET RECURSIVE total(_)
        total(names) ==
            IF names = {} THEN 0
            ELSE LET name == CHOOSE f \in names : TRUE
                 IN  Len(z.mediaFiles[name].bytes) + total(names \ {name})
    IN  (IF Truthy(z.chatContent) THEN Len(z.chatContent[1]) * 2 ELSE 0)
            + total(DOMAIN z.mediaFiles)

\* ------------------------------------------------------------- MessageParser
\* characters and the JavaScript string functions the parser uses
Digits == <<"0","1","2","3","4","5","6","7","8","9">>
\* \d, \s and \w of a regular expression; \s is also what trim() strips
DigitChars == {Digits[i] : i \in 1..Len(Digits)}
WhiteSpace == {" ", "\t", "\r", "\n"}
WordChars ==
    DigitChars \cup {"_"}
        \cup {UpperChars[i] : i \in 1..Len(UpperChars)}
        \cup {LowerChars[i] : i \in 1..Len(LowerChars)}

\* the character at position i, "" past either end
At(s, i) == IF i \in 1..Len(s) THEN s[i] ELSE ""
\* s.substring(i - 1): from position i to the end
From(s, i) == SubSeq(s, i, Len(s))
\* the length of the longest run of characters of the set that starts at i:
\* what a greedy [chars]* consumes
Run(s, i, chars) ==
    Cardinality({j \in i..Len(s) : \A k \in i..j : s[k] \in chars})
\* the first position >= i of a character of the set, 0 when there is none
Find(s, i, chars) ==
    LET at == {j \in i..Len(s) : s[j] \in chars}
    IN  IF at = {} THEN 0 ELSE CHOOSE j \in at : \A k \in at : j <= k

\* String.prototype.trim
trim(s) ==
    LET keep == {i \in 1..Len(s) : s[i] \notin WhiteSpace}
    IN  IF keep = {} THEN <<>>
        ELSE SubSeq(s, CHOOSE i \in keep : \A k \in keep : i <= k,
                       CHOOSE i \in keep : \A k \in keep : k <= i)

\* String.prototype.split for a separator that is one character of a set
RECURSIVE split(_, _)
split(s, seps) ==
    LET k == Find(s, 1, seps)
    IN  IF k = 0 THEN <<s>>
        ELSE <<SubSeq(s, 1, k - 1)>> \o split(From(s, k + 1), seps)

\* Not-a-Number, as a number no digit string stands for
NaN == -1
\* the value of a string of decimal digits
RECURSIVE decimal(_)
decimal(digits) ==
    IF digits = <<>> THEN 0
    ELSE 10 * decimal(SubSeq(digits, 1, Len(digits) - 1))
            + (CHOOSE i \in 1..Len(Digits) : Digits[i] = digits[Len(digits)]) - 1
\* parseInt(s, 10) of a string without a sign: leading white space is
\* skipped, the digits that follow are read, what comes after them is
\* ignored; NaN when there is no digit
parseInt(s) ==
    LET start == 1 + Run(s, 1, WhiteSpace)
        n == Run(s, start, DigitChars)
    IN  IF n = 0 THEN NaN ELSE decimal(SubSeq(s, start, start + n - 1))

\* ------------------------------------------------------------------- Date
daysInMonth(y, m) ==
    IF m = 2
    THEN (IF (y % 4 = 0 /\ y % 100 # 0) \/ y % 400 = 0 THEN 29 ELSE 28)
    ELSE IF m \in {4, 6, 9, 11} THEN 30 ELSE 31

\* a day number outside its month is carried into the months around it
RECURSIVE rollDay(_, _, _)
rollDay(y, m, d) ==
    IF d < 1
    THEN LET py == IF m = 1 THEN y - 1 ELSE y
             pm == IF m = 1 THEN 12 ELSE m - 1
         IN  rollDay(py, pm, d + daysInMonth(py, pm))
    ELSE IF d > daysInMonth(y, m)
    THEN rollDay(IF m = 12 THEN y + 1 ELSE y, IF m = 12 THEN 1 ELSE m + 1,
                 d - daysInMonth(y, m))
    ELSE <<y, m, d>>

\* new Date(year, monthIndex, day, hours, minutes, seconds) for arguments
\* that are not negative but for monthIndex -1, in a time zone without
\* daylight saving: seconds carry into minutes, minutes into hours, hours
\* into days, days into months and months into years; years 0..99 are
\* taken as 1900..1999
newDate(year, monthIndex, day, hours, minutes, seconds) ==
    LET y0 == IF year \in 0..99 THEN 1900 + year ELSE year
        total == hours * 3600 + minutes * 60 + seconds
        months == y0 * 12 + monthIndex
        ymd == rollDay(months \div 12, (months % 12) + 1,
                       day + total \div 86400)
    IN  [year |-> ymd[1], month |-> ymd[2] - 1, date |-> ymd[3],
         hours |-> (total % 86400) \div 3600,
         minutes |-> (total % 3600) \div 60,
         seconds |-> total % 60]

\* timeStr.match(/(\d{1,2}):(\d{2})(?::(\d{2}))?(?:\s*([AP]M))?/) tried at
\* position i: the groups, or ok = FALSE
timeAt(s, i) ==
    LET h == IF At(s, i) \in DigitChars /\ At(s, i + 1) \in DigitChars
                /\ At(s, i + 2) = ":" THEN 2
             ELSE IF At(s, i) \in DigitChars /\ At(s, i + 1) = ":" THEN 1
             ELSE 0
        m == i + h + 1
        hasMin == h > 0 /\ At(s, m) \in DigitChars /\ At(s, m + 1) \in DigitChars
        hasSec == /\ At(s, m + 2) = ":"
                  /\ At(s, m + 3) \in DigitChars /\ At(s, m + 4) \in DigitChars
        p == IF hasSec THEN m + 5 ELSE m + 2
        w == Run(s, p, WhiteSpace)
        hasPeriod == At(s, p + w) \in {"A", "P"} /\ At(s, p + w + 1) = "M"
    IN  [ok |-> hasMin,
         hours |-> SubSeq(s, i, i + h - 1),
         minutes |-> IF hasMin THEN SubSeq(s, m, m + 1) ELSE <<>>,
         seconds |-> IF hasSec THEN Some(SubSeq(s, m + 3, m + 4)) ELSE None,
         period |-> IF hasPeriod THEN Some(SubSeq(s, p + w, p + w + 1))
                    ELSE None,
         end |-> IF hasPeriod THEN p + w + 2 ELSE p]

\* parseDate taking every year below 100 as a year of the 1900s
parseDate_century1900(dateStr, timeStr) ==
    LET dateParts == split(dateStr, {"/", "."})
        \* the leftmost position where the time pattern matches, 0 when
        \* nowhere
        first(found) == IF found = {} THEN 0
                        ELSE CHOOSE i \in found : \A k \in found : i <= k
        \* lines 34 to 62, for the match and the three numbers of the date
        fromParts(timeParts, day, month, year0) ==
            LET year == IF year0 # NaN /\ year0 < 100
                        THEN year0 + 1900
                        ELSE year0
                hours0 == parseInt(timeParts.hours)
                minutes == parseInt(timeParts.minutes)
                seconds == IF timeParts.seconds # None
                           THEN parseInt(timeParts.seconds[1]) ELSE 0
                hours == IF timeParts.period = Some(<<"P","M">>)
                             /\ hours0 # 12
                         THEN hours0 + 12
                         ELSE IF timeParts.period = Some(<<"A","M">>)
                                 /\ hours0 = 12
                         THEN 0 ELSE hours0
                \* lines 55 to 62
                checked(date) ==
                    IF \/ date.year # year
                       \/ date.month # month - 1
                       \/ date.date # day
                    THEN None
                    ELSE Some(date)
            IN  IF NaN \in {day, month, year0} THEN None
                ELSE checked(newDate(year, month - 1, day, hours, minutes,
                                     seconds))
        matched(at) ==
            IF Len(dateParts) < 3 \/ at = 0 THEN None
            ELSE fromParts(timeAt(timeStr, at), parseInt(dateParts[1]),
                           parseInt(dateParts[2]), parseInt(dateParts[3]))
    IN  matched(first({i \in 1..Len(timeStr) : timeAt(timeStr, i).ok}))

\* parseDate(dateStr, timeStr): the Date, or null.  A NaN component makes
\* the Date invalid, which isNaN(date.getTime()) rejects.
parseDate(dateStr, timeStr) ==
    LET dateParts == split(dateStr, {"/", "."})
        \* the leftmost position where the time pattern matches, 0 when
        \* nowhere
        first(found) == IF found = {} THEN 0
                        ELSE CHOOSE i \in found : \A k \in found : i <= k
        \* lines 34 to 62, for the match and the three numbers of the date
        fromParts(timeParts, day, month, year0) ==
            LET year == IF year0 # NaN /\ year0 < 100
                        THEN year0 + (IF year0 < 50 THEN 2000 ELSE 1900)
                        ELSE year0
                hours0 == parseInt(timeParts.hours)
                minutes == parseInt(timeParts.minutes)
                seconds == IF timeParts.seconds # None
                           THEN parseInt(timeParts.seconds[1]) ELSE 0
                hours == IF timeParts.period = Some(<<"P","M">>)
                             /\ hours0 # 12
                         THEN hours0 + 12
                         ELSE IF timeParts.period = Some(<<"A","M">>)
                                 /\ hours0 = 12
                         THEN 0 ELSE hours0
                \* lines 55 to 62
                checked(date) ==
                    IF \/ date.year # year
                       \/ date.month # month - 1
                       \/ date.date # day
                    THEN None
                    ELSE Some(date)
            IN  IF NaN \in {day, month, year0} THEN None
                ELSE checked(newDate(year, month - 1, day, hours, minutes,
                                     seconds))
        matched(at) ==
            IF Len(dateParts) < 3 \/ at = 0 THEN None
            ELSE fromParts(timeAt(timeStr, at), parseInt(dateParts[1]),
                           parseInt(dateParts[2]), parseInt(dateParts[3]))
    IN  matched(first({i \in 1..Len(timeStr) : timeAt(timeStr, i).ok}))

\* ----------------------------------------------------------- line patterns
\* the head the three line patterns share, tried at position i:
\*   (\d{1,2}[/.]\d{1,2}[/.]\d{2,4}),?\s+
\*   (\d{1,2}:\d{2}(?::\d{2})?(?:\s*[AP]M)?)
\* Every quantifier in it is followed by a character it cannot match, so the
\* greedy choice is the only one; date and time are the two groups
stampAt(s, i) ==
    LET d1 == Run(s, i, DigitChars)
        a == i + d1
        d2 == Run(s, a + 1, DigitChars)
        b == a + 1 + d2
        d3 == Run(s, b + 1, DigitChars)
        c == b + 1 + d3
        t0 == IF At(s, c) = "," THEN c + 1 ELSE c
        w == Run(s, t0, WhiteSpace)
        t == t0 + w
        \* the groups, for the match of the time at t
        groups(time) ==
            IF /\ d1 \in 1..2 /\ At(s, a) \in {"/", "."}
               /\ d2 \in 1..2 /\ At(s, b) \in {"/", "."}
               /\ d3 \in 2..4
               /\ w >= 1
               /\ time.ok
            THEN [ok |-> TRUE, date |-> SubSeq(s, i, c - 1),
                  time |-> SubSeq(s, t, time.end - 1), end |-> time.end]
            ELSE [ok |-> FALSE, date |-> <<>>, time |-> <<>>, end |-> 0]
    IN  groups(timeAt(s, t))

\* (.*) at position i: what is left of the line, up to a line terminator
restAt(s, i) ==
    LET stop == Find(s, i, {"\n", "\r"})
    IN  IF stop = 0 THEN From(s, i) ELSE SubSeq(s, i, stop - 1)

\* \s([^:]+?):\s*(.*) where q follows a run of w white-space characters of
\* which the pattern before needs least: the sender runs up to the first
\* colon; when the colon comes first, the run gives its last character back
\* to the sender if it can spare one
senderAt(s, q, w, least) ==
    LET colon == Find(s, q, {":"})
        from == IF colon = q THEN q - 1 ELSE q
        ok == colon # 0 /\ (colon > q \/ w > least)
    IN  IF ok
        THEN [ok |-> TRUE, sender |-> SubSeq(s, from, colon - 1),
              text |-> restAt(s, colon + 1 + Run(s, colon + 1, WhiteSpace))]
        ELSE [ok |-> FALSE, sender |-> <<>>, text |-> <<>>]

NoMatch == [ok |-> FALSE, date |-> <<>>, time |-> <<>>, sender |-> <<>>,
            text |-> <<>>]

\* line.match(patterns.bracket): groups 1 to 4
bracketMatch(line) ==
    LET groups(stamp, w, rest) ==
            IF /\ At(line, 1) = "["
               /\ stamp.ok
               /\ At(line, stamp.end) = "]"
               /\ w >= 1
               /\ rest.ok
            THEN [ok |-> TRUE, date |-> stamp.date, time |-> stamp.time,
                  sender |-> rest.sender, text |-> rest.text]
            ELSE NoMatch
        after(stamp, w) ==
            groups(stamp, w, senderAt(line, stamp.end + 1 + w, w, 1))
        from(stamp) == after(stamp, Run(line, stamp.end + 1, WhiteSpace))
    IN  from(stampAt(line, 2))

\* line.match(patterns.dash): groups 1 to 4
dashMatch(line) ==
    LET groups(stamp, w1, rest) ==
            IF /\ stamp.ok
               /\ At(line, stamp.end + w1) = "-"
               /\ rest.ok
            THEN [ok |-> TRUE, date |-> stamp.date, time |-> stamp.time,
                  sender |-> rest.sender, text |-> rest.text]
            ELSE NoMatch
        after(stamp, w1, w2) ==
            groups(stamp, w1,
                   senderAt(line, stamp.end + w1 + 1 + w2, w2, 0))
        dashed(stamp, w1) ==
            after(stamp, w1, Run(line, stamp.end + w1 + 1, WhiteSpace))
        from(stamp) == dashed(stamp, Run(line, stamp.end, WhiteSpace))
    IN  from(stampAt(line, 1))

\* line.match(patterns.systemDash): groups 1 to 3
systemDashMatch(line) ==
    LET groups(stamp, w1, w2) ==
            IF stamp.ok /\ At(line, stamp.end + w1) = "-"
            THEN [ok |-> TRUE, date |-> stamp.date, time |-> stamp.time,
                  sender |-> <<>>,
                  text |-> restAt(line, stamp.end + w1 + 1 + w2)]
            ELSE NoMatch
        dashed(stamp, w1) ==
            groups(stamp, w1, Run(line, stamp.end + w1 + 1, WhiteSpace))
        from(stamp) == dashed(stamp, Run(line, stamp.end, WhiteSpace))
    IN  from(stampAt(line, 1))

\* -------------------------------------------------------- media extraction
\* the keys of the table of getMediaType
mediaTypes ==
    <<"j","p","g">> :> "image" @@
    <<"j","p","e","g">> :> "image" @@
    <<"p","n","g">> :> "image" @@
    <<"g","i","f">> :> "image" @@
    <<"w","e","b","p">> :> "image" @@
    <<"m","p","4">> :> "video" @@
    <<"3","g","p">> :> "video" @@
    <<"m","o","v">> :> "video" @@
    <<"a","v","i">> :> "video" @@
    <<"m","k","v">> :> "video" @@
    <<"w","e","b","m">> :> "video" @@
    <<"o","p","u","s">> :> "audio" @@
    <<"m","p","3">> :> "audio" @@
    <<"a","a","c">> :> "audio" @@
    <<"m","4","a">> :> "audio" @@
    <<"w","a","v">> :> "audio" @@
    <<"p","d","f">> :> "document" @@
    <<"d","o","c">> :> "document" @@
    <<"d","o","c","x">> :> "document" @@
    <<"x","l","s">> :> "document" @@
    <<"x","l","s","x">> :> "document" @@
    <<"p","p","t">> :> "document" @@
    <<"p","p","t","x">> :> "document" @@
    <<"t","x","t">> :> "document" @@
    <<"v","c","f">> :> "contact"
\* types[ext] || 'file'.  inheritedKeys: the all lower-case property names
\* every JavaScript object inherits, which types[ext] finds although the
\* table does not list them
getMediaType(filename) ==
    IF filename = <<>> THEN "omitted"
    ELSE LET ext == toLowerCase(splitPop(filename, "."))
             inheritedKeys ==
                 { <<"_","_","p","r","o","t","o","_","_">>,
                   <<"c","o","n","s","t","r","u","c","t","o","r">> }
         IN  IF ext \in DOMAIN mediaTypes THEN mediaTypes[ext]
             ELSE IF ext \in inheritedKeys THEN "inherited"
             ELSE "file"

\* MediaHandler.getMediaType(filename): the first kind of its table that
\* lists the extension
MediaHandler_getMediaType(filename) ==
    LET ext == splitPop(toLowerCase(filename), ".")
        types ==
            << [type |-> "image",
                extensions |-> { <<"j","p","g">>, <<"j","p","e","g">>,
                               <<"p","n","g">>, <<"g","i","f">>,
                               <<"w","e","b","p">>, <<"b","m","p">> }],
               [type |-> "video",
                extensions |-> { <<"m","p","4">>, <<"m","o","v">>,
                               <<"a","v","i">>, <<"w","m","v">>,
                               <<"3","g","p">>, <<"m","k","v">>,
                               <<"w","e","b","m">> }],
               [type |-> "audio",
                extensions |-> { <<"m","p","3">>, <<"w","a","v">>,
                               <<"a","a","c">>, <<"m","4","a">>,
                               <<"o","p","u","s">>, <<"o","g","g">>,
                               <<"w","m","a">> }],
               [type |-> "document",
                extensions |-> { <<"p","d","f">>, <<"d","o","c">>,
                               <<"d","o","c","x">>, <<"x","l","s">>,
                               <<"x","l","s","x">>, <<"p","p","t">>,
                               <<"p","p","t","x">>, <<"t","x","t">>,
                               <<"v","c","f">> }] >>
        listed == {k \in 1..Len(types) : ext \in types[k].extensions}
    IN  IF filename = <<>> THEN "unknown"
        ELSE IF listed # {}
        THEN types[CHOOSE k \in listed : \A j \in listed : k <= j].type
        ELSE "file"

\* patterns.attachment, /<attached:\s*([^>]+)>/, tried at position i
attachmentAt(s, i) ==
    LET attachedTag == <<"<","a","t","t","a","c","h","e","d",":">>
        j == i + Len(attachedTag)
        w == Run(s, j, WhiteSpace)
        close == Find(s, j, {">"})
        from == IF j + w < close THEN j + w ELSE close - 1
        ok == /\ j - 1 <= Len(s)
              /\ SubSeq(s, i, j - 1) = attachedTag
              /\ close # 0
              /\ (j + w < close \/ w >= 1)
    IN  IF ok THEN [ok |-> TRUE, name |-> SubSeq(s, from, close - 1),
                    end |-> close]
        ELSE [ok |-> FALSE, name |-> <<>>, end |-> 0]

\* text.match(/^([\w\-]+(?:\s+[\w\-]+)*\.\w{2,4})(?:\s|$)/): group 1, or the
\* empty string when there is no match.  Words of word characters and
\* hyphens, white space between them, then the first dot of the text, 2 to
\* 4 word characters and white space or the end
filenameMatch(s) ==
    LET dot == Find(s, 1, {"."})
        e == Run(s, dot + 1, WordChars)
        ok == /\ dot > 1
              /\ s[1] \in WordChars \cup {"-"}
              /\ s[dot - 1] \in WordChars \cup {"-"}
              /\ \A k \in 1..(dot - 1) : s[k] \in WordChars \cup {"-"} \/ s[k] \in WhiteSpace
              /\ e \in 2..4
              /\ (dot + e = Len(s) \/ At(s, dot + e + 1) \in WhiteSpace)
    IN  IF ok THEN SubSeq(s, 1, dot + e) ELSE <<>>

\* patterns.mediaOmitted, which ignores case
mediaOmitted ==
    { <<"<","m","e","d","i","a"," ","o","m","i","t","t","e","d",">">>,
      <<"i","m","a","g","e"," ","o","m","i","t","t","e","d">>,
      <<"v","i","d","e","o"," ","o","m","i","t","t","e","d">>,
      <<"a","u","d","i","o"," ","o","m","i","t","t","e","d">>,
      <<"d","o","c","u","m","e","n","t"," ","o","m","i","t","t","e","d">>,
      <<"c","o","n","t","a","c","t"," ","c","a","r","d"," ","o","m","i","t","t","e","d">>,
      <<"l","o","c","a","t","i","o","n",":"," ","h","t","t","p","s",":","/","/","m","a","p","s",".","g","o","o","g","l","e",".","c","o","m">> }
\* patterns.mediaOmitted.test(s): one of the phrases occurs somewhere
mediaOmittedTest(s) ==
    \E phrase \in mediaOmitted :
        \E i \in 1..(Len(s) - Len(phrase) + 1) :
            SubSeq(toLowerCase(s), i, i + Len(phrase) - 1) = phrase

\* extractMediaInfo looking for an omitted phrase before a leading filename
extractMediaInfo_omittedFirst(text) ==
    LET \* the leftmost position where patterns.attachment matches, 0 when
        \* nowhere
        found == {i \in 1..Len(text) : attachmentAt(text, i).ok}
        at == IF found = {} THEN 0
              ELSE CHOOSE i \in found : \A k \in found : i <= k
        name == filenameMatch(text)
    IN  IF at # 0
        THEN LET m == attachmentAt(text, at)
                 filename == trim(m.name)
             IN  [hasMedia |-> TRUE, filename |-> Some(filename),
                  type |-> getMediaType(filename),
                  text |-> trim(SubSeq(text, 1, at - 1)
                                   \o From(text, m.end + 1))]
        ELSE IF mediaOmittedTest(text)
        THEN [hasMedia |-> TRUE, filename |-> None, type |-> "omitted",
              text |-> text]
        ELSE IF /\ name # <<>>
                /\ toLowerCase(splitPop(name, ".")) \in mediaExtensions
        THEN [hasMedia |-> TRUE, filename |-> Some(name),
              type |-> getMediaType(name),
              text |-> trim(From(text, Len(name) + 1))]
        ELSE [hasMedia |-> FALSE, filename |-> None, type |-> "null",
              text |-> text]

extractMediaInfo(text) ==
    LET \* the leftmost position where patterns.attachment matches, 0 when
        \* nowhere
        found == {i \in 1..Len(text) : attachmentAt(text, i).ok}
        at == IF found = {} THEN 0
              ELSE CHOOSE i \in found : \A k \in found : i <= k
        name == filenameMatch(text)
    IN  IF at # 0
        THEN LET m == attachmentAt(text, at)
                 filename == trim(m.name)
             IN  [hasMedia |-> TRUE, filename |-> Some(filename),
                  type |-> getMediaType(filename),
                  text |-> trim(SubSeq(text, 1, at - 1)
                                   \o From(text, m.end + 1))]
        ELSE IF /\ name # <<>>
                \* mediaExtensions.test: the same extensions as isMediaFile
                /\ toLowerCase(splitPop(name, ".")) \in mediaExtensions
        THEN [hasMedia |-> TRUE, filename |-> Some(name),
              type |-> getMediaType(name),
              text |-> trim(From(text, Len(name) + 1))]
        ELSE IF mediaOmittedTest(text)
        THEN [hasMedia |-> TRUE, filename |-> None, type |-> "omitted",
              text |-> text]
        ELSE [hasMedia |-> FALSE, filename |-> None, type |-> "null",
              text |-> text]

\* ------------------------------------------------------------- MediaHandler
\* createMediaElement asking for the URL before it looks whether the
\* archive holds the file
createMediaElement_urlFirst(z, filename) ==
    LET element(got, type) ==
            [got EXCEPT !.ret =
                [element |-> IF filename \notin DOMAIN z.mediaFiles
                             THEN "missing"
                             ELSE IF type \in {"image", "video", "audio",
                                               "document"}
                             THEN type ELSE "file",
                 url |-> got.ret,
                 calls |-> <<"getMediaURL", "hasMedia">>]]
    IN  element(getMediaURL(z, filename), MediaHandler_getMediaType(filename))

\* createMediaElement(filename): z.ret is the kind of element built, the URL
\* it shows and the calls made on the archive handler
createMediaElement(z, filename) ==
    LET element(got, type) ==
            [got EXCEPT !.ret =
                [element |-> IF type \in {"image", "video", "audio",
                                          "document"}
                             THEN type ELSE "file",
                 url |-> got.ret,
                 calls |-> <<"hasMedia", "getMediaURL">>]]
    IN  IF filename \notin DOMAIN z.mediaFiles
        THEN [z EXCEPT !.ret = [element |-> "missing", url |-> NoUrl,
                                calls |-> <<"hasMedia">>]]
        ELSE element(getMediaURL(z, filename),
                     MediaHandler_getMediaType(filename))

\* ------------------------------------------------------------ participants
\* the UTF-16 code unit of a letter, a digit or a space
codeUnit(c) ==
    CASE \E k \in 1..Len(UpperChars) : UpperChars[k] = c ->
             64 + (CHOOSE k \in 1..Len(UpperChars) : UpperChars[k] = c)
      [] \E k \in 1..Len(LowerChars) : LowerChars[k] = c ->
             96 + (CHOOSE k \in 1..Len(LowerChars) : LowerChars[k] = c)
      [] \E k \in 1..Len(Digits) : Digits[k] = c ->
             47 + (CHOOSE k \in 1..Len(Digits) : Digits[k] = c)
      [] c = " " -> 32

\* the order of Array.prototype.sort without a compare function: by code
\* units, a proper prefix first
before(a, b) ==
    \E i \in 1..Len(b) :
        /\ i <= Len(a) + 1
        /\ SubSeq(a, 1, i - 1) = SubSeq(b, 1, i - 1)
        /\ (i > Len(a) \/ codeUnit(a[i]) < codeUnit(b[i]))

\* Array.from(set).sort()
RECURSIVE sort(_)
sort(set) ==
    IF set = {} THEN <<>>
    ELSE LET least == CHOOSE a \in set : \A b \in set \ {a} : before(a, b)
         IN  <<least>> \o sort(set \ {least})

getParticipants(messages) ==
    sort({messages[i].sender :
              i \in {k \in DOMAIN messages :
                         /\ ~messages[k].isSystem
                         /\ messages[k].sender # <<"S","y","s","t","e","m">>}})

\* StateManager.calculateStats(messages); a date is the number of its day
calculateStats(messages) ==
    LET all == DOMAIN messages
        media == {i \in all : /\ messages[i].hasMedia
                              /\ messages[i].mediaType
                                     \in {"image", "video", "audio"}}
        documents == {i \in all : /\ messages[i].hasMedia
                                  /\ messages[i].mediaType
                                         \in {"document", "file"}}
        dated == {messages[i].date[1] : i \in {k \in all :
                                                  messages[k].date # None}}
    IN  [totalMessages |-> Len(messages),
         mediaCount |-> Cardinality(media),
         documentCount |-> Cardinality(documents),
         participants |->
             sort({messages[i].sender :
                       i \in {k \in all :
                                  /\ ~messages[k].isSystem
                                  /\ messages[k].sender
                                         # <<"S","y","s","t","e","m">>}}),
         dateRange |->
             IF dated = {} THEN [start |-> None, end |-> None]
             ELSE [start |-> Some(CHOOSE d \in dated : \A e \in dated : d <= e),
                   end |-> Some(CHOOSE d \in dated : \A e \in dated : e <= d)]]

\* ------------------------------------------------------------ StateManager
\* the events the manager emits, and the callbacks subscribed to them: one
\* that returns and one that throws
Events == {"messages:changed", "filter:applied", "state:cleared"}
Callbacks == {"spy", "thrower"}

\* this.state as the constructor and clear() build it
InitialState ==
    [messages |-> <<>>, filteredMessages |-> <<>>,
     filter |-> [text |-> <<>>, type |-> "all", dateRange |-> None],
     stats |-> [totalMessages |-> 0, mediaCount |-> 0, documentCount |-> 0,
                participants |-> <<>>,
                dateRange |-> [start |-> None, end |-> None]]]

\* the manager as one value: its fields, the calls of callbacks made, the
\* events emitted and whether an exception left the operation
Manager ==
    [state |-> state, subscribers |-> subscribers, calls |-> <<>>,
     emitted |-> <<>>, thrown |-> FALSE]

\* subscribe(event, callback): a Set holds a callback once
subscribe(m, event, callback) ==
    [m EXCEPT !.subscribers =
        IF event \notin DOMAIN @ THEN (event :> <<callback>>) @@ @
        ELSE IF \E i \in 1..Len(@[event]) : @[event][i] = callback THEN @
        ELSE [@ EXCEPT ![event] = Append(@, callback)]]

\* the unsubscribe function deleting the Set of the event with all its
\* callbacks
unsubscribe_dropEvent(m, event, callback) ==
    [m EXCEPT !.subscribers =
        IF event \notin DOMAIN @ THEN @ ELSE Without(@, event)]

\* the function subscribe(event, callback) returned
unsubscribe(m, event, callback) ==
    [m EXCEPT !.subscribers =
        IF event \notin DOMAIN @ THEN @
        ELSE IF Drop(@[event], callback) = <<>> THEN Without(@, event)
        ELSE [@ EXCEPT ![event] = Drop(@, callback)]]

\* emit without the try/catch: the exception of a callback ends the loop
\* and leaves emit
emit_noCatch(m, event, data) ==
    LET callbacks == IF event \in DOMAIN m.subscribers
                     THEN m.subscribers[event] ELSE <<>>
        throwing == {i \in 1..Len(callbacks) : callbacks[i] = "thrower"}
        reached == IF throwing = {} THEN Len(callbacks)
                   ELSE CHOOSE i \in throwing : \A k \in throwing : i <= k
    IN  [m EXCEPT !.calls = @ \o [i \in 1..reached |->
                                     [callback |-> callbacks[i],
                                      event |-> event, data |-> data,
                                      seen |-> m.state,
                                      threw |-> callbacks[i] = "thrower"]],
                  !.emitted = Append(@, event),
                  !.thrown = throwing # {}]

\* emit(event, data): every callback of the event is called with the data,
\* in the order of the Set; what a callback throws is caught and logged
emit(m, event, data) ==
    LET callbacks == IF event \in DOMAIN m.subscribers
                     THEN m.subscribers[event] ELSE <<>>
    IN  [m EXCEPT !.calls = @ \o [i \in 1..Len(callbacks) |->
                                     [callback |-> callbacks[i],
                                      event |-> event, data |-> data,
                                      seen |-> m.state,
                                      threw |-> callbacks[i] = "thrower"]],
                  !.emitted = Append(@, event)]

\* String.prototype.includes
includes(s, part) ==
    \E i \in 0..(Len(s) - Len(part)) : SubSeq(s, i + 1, i + Len(part)) = part

\* filterMessages keeping a message that meets one of the criteria
filterMessages_anyCriterion(messages, filter) ==
    LET inText(msg) ==
            \/ includes(toLowerCase(msg.text), toLowerCase(filter.text))
            \/ includes(toLowerCase(msg.sender), toLowerCase(filter.text))
        ofType(msg) ==
            IF filter.type = "media"
            THEN msg.hasMedia /\ msg.mediaType \in {"image", "video", "audio"}
            ELSE IF filter.type = "documents"
            THEN msg.hasMedia /\ msg.mediaType \in {"document", "file"}
            ELSE TRUE
        inRange(msg) ==
            /\ msg.date # None
            /\ msg.date[1] >= filter.dateRange[1].start
            /\ msg.date[1] <= filter.dateRange[1].end
        kept(msg) ==
            \/ filter.text # <<>> /\ inText(msg)
            \/ filter.type # "all" /\ ofType(msg)
            \/ filter.dateRange # None /\ inRange(msg)
            \/ filter = InitialState.filter
    IN  SelectSeq(messages, kept)

\* filterMessages(messages, filter): filter() keeps the order
filterMessages(messages, filter) ==
    LET inText(msg) ==
            \/ includes(toLowerCase(msg.text), toLowerCase(filter.text))
            \/ includes(toLowerCase(msg.sender), toLowerCase(filter.text))
        ofType(msg) ==
            IF filter.type = "media"
            THEN msg.hasMedia /\ msg.mediaType \in {"image", "video", "audio"}
            ELSE IF filter.type = "documents"
            THEN msg.hasMedia /\ msg.mediaType \in {"document", "file"}
            ELSE TRUE
        inRange(msg) ==
            /\ msg.date # None
            /\ msg.date[1] >= filter.dateRange[1].start
            /\ msg.date[1] <= filter.dateRange[1].end
        kept(msg) ==
            /\ filter.text # <<>> => inText(msg)
            /\ filter.type # "all" => ofType(msg)
            /\ filter.dateRange # None => inRange(msg)
    IN  SelectSeq(messages, kept)

\* setMessages emitting before it stores the messages
setMessages_emitFirst(m, messages) ==
    LET stored(filtered, stats) ==
            [emit(m, "messages:changed",
                  [messages |-> filtered, stats |-> stats,
                   totalCount |-> Len(messages),
                   filteredCount |-> Len(filtered)])
               EXCEPT !.state = [@ EXCEPT !.messages = messages,
                                          !.stats = stats,
                                          !.filteredMessages = filtered]]
    IN  stored(filterMessages(messages, m.state.filter),
               calculateStats(messages))

setMessages(m, messages) ==
    LET stored(filtered, stats) ==
            emit([m EXCEPT !.state = [@ EXCEPT !.messages = messages,
                                               !.stats = stats,
                                               !.filteredMessages = filtered]],
                 "messages:changed",
                 [messages |-> filtered, stats |-> stats,
                  totalCount |-> Len(messages),
                  filteredCount |-> Len(filtered)])
    IN  stored(filterMessages(messages, m.state.filter),
               calculateStats(messages))

\* applyFilter taking the fields the argument does not name from the
\* defaults
applyFilter_overDefaults(m, filter) ==
    LET applied(merged, filtered) ==
            emit([m EXCEPT !.state = [@ EXCEPT !.filter = merged,
                                               !.filteredMessages = filtered]],
                 "filter:applied",
                 [messages |-> filtered, filter |-> merged,
                  totalCount |-> Len(m.state.messages),
                  filteredCount |-> Len(filtered)])
        with(merged) ==
            applied(merged, filterMessages(m.state.messages, merged))
    IN  with([k \in DOMAIN InitialState.filter |->
                 IF k \in DOMAIN filter THEN filter[k]
                 ELSE InitialState.filter[k]])

\* applyFilter(filter): { ...this.state.filter, ...filter }
applyFilter(m, filter) ==
    LET applied(merged, filtered) ==
            emit([m EXCEPT !.state = [@ EXCEPT !.filter = merged,
                                               !.filteredMessages = filtered]],
                 "filter:applied",
                 [messages |-> filtered, filter |-> merged,
                  totalCount |-> Len(m.state.messages),
                  filteredCount |-> Len(filtered)])
        with(merged) ==
            applied(merged, filterMessages(m.state.messages, merged))
    IN  with([k \in DOMAIN m.state.filter \cup DOMAIN filter |->
                 IF k \in DOMAIN filter THEN filter[k]
                 ELSE m.state.filter[k]])

clearFilter(m, filterType) ==
    IF filterType = "text" THEN applyFilter(m, [text |-> <<>>])
    ELSE IF filterType = "type" THEN applyFilter(m, [type |-> "all"])
    ELSE IF filterType = "dateRange" THEN applyFilter(m, [dateRange |-> None])
    ELSE applyFilter(m, [text |-> <<>>, type |-> "all", dateRange |-> None])

\* clear() building a new Map of subscribers as well
StateManager_clear_newSubscribers(m) ==
    emit([m EXCEPT !.state = InitialState, !.subscribers = <<>>],
         "state:cleared", None)

\* StateManager.clear()
StateManager_clear(m) ==
    emit([m EXCEPT !.state = InitialState], "state:cleared", None)

\* loadFromStorage() with what localStorage.getItem gives: null, a text that
\* is no JSON (JSON.parse throws, which is caught), or the JSON of an object
\* with or without a filter.  The filter stored is merged into the current
\* one; nothing else is assigned and nothing is emitted.  returned is the
\* value of the call
loadFromStorage(m, saved) ==
    IF saved.kind = "null" \/ saved.kind = "invalid"
    THEN [state |-> m.state, returned |-> FALSE]
    ELSE IF saved.filter = None
    THEN [state |-> m.state, returned |-> TRUE]
    ELSE [state |->
              [m.state EXCEPT !.filter =
                  [k \in DOMAIN @ \cup DOMAIN saved.filter[1] |->
                      IF k \in DOMAIN saved.filter[1] THEN saved.filter[1][k]
                      ELSE @[k]]],
          returned |-> TRUE]

\* ------------------------------------------------------------ parseLine
Failed(lineNumber, line, reason) ==
    [failed |-> TRUE, lineNumber |-> lineNumber, line |-> line,
     reason |-> reason]

\* the message parseLine builds from a bracket or a dash match
Message(match, date, line) ==
    LET with(mediaInfo) ==
            [date |-> date, sender |-> trim(match.sender),
             text |-> mediaInfo.text, isSystem |-> FALSE,
             hasMedia |-> mediaInfo.hasMedia, mediaType |-> mediaInfo.type,
             mediaFilename |-> mediaInfo.filename, raw |-> line]
    IN  with(extractMediaInfo(match.text))

SystemMessage(match, date, line) ==
    [date |-> date, sender |-> <<"S","y","s","t","e","m">>,
     text |-> trim(match.text), isSystem |-> TRUE, hasMedia |-> FALSE,
     mediaType |-> "null", mediaFilename |-> None, raw |-> line]

\* parseLine trying the next pattern when the date of a match is invalid
parseLine_fallThrough(rawLine, lineNumber) ==
    LET line == trim(rawLine)
        bracket == bracketMatch(line)
        dash == dashMatch(line)
        system == systemDashMatch(line)
        valid(m) == m.ok /\ parseDate(m.date, m.time) # None
    IN  IF line = <<>> THEN None
        ELSE IF valid(bracket)
        THEN Some(Message(bracket, parseDate(bracket.date, bracket.time)[1],
                          line))
        ELSE IF valid(dash)
        THEN Some(Message(dash, parseDate(dash.date, dash.time)[1], line))
        ELSE IF system.ok /\ Find(system.text, 1, {":"}) = 0
        THEN LET date == parseDate(system.date, system.time)
             IN  IF date = None
                 THEN Some(Failed(lineNumber, line, "Invalid date format"))
                 ELSE Some(SystemMessage(system, date[1], line))
        ELSE Some(Failed(lineNumber, line, "No matching pattern"))

\* parseLine(line, lineNumber): null for a blank line, else a message or a
\* failed line
parseLine(rawLine, lineNumber) ==
    LET line == trim(rawLine)
        \* lines 151 to 167, 173 to 188 and 196 to 210: what a match gives,
        \* date being what parseDate returned for its date and time
        dated(match, isSystem, date) ==
            IF date = None
            THEN Some(Failed(lineNumber, line, "Invalid date format"))
            ELSE IF isSystem
            THEN Some(SystemMessage(match, date[1], line))
            ELSE Some(Message(match, date[1], line))
        matched(match, isSystem) ==
            dated(match, isSystem, parseDate(match.date, match.time))
        tried(bracket, dash, system) ==
            IF bracket.ok THEN matched(bracket, FALSE)
            ELSE IF dash.ok THEN matched(dash, FALSE)
            ELSE IF system.ok /\ Find(system.text, 1, {":"}) = 0
            THEN matched(system, TRUE)
            ELSE Some(Failed(lineNumber, line, "No matching pattern"))
    IN  IF line = <<>> THEN None
        ELSE tried(bracketMatch(line), dashMatch(line),
                   systemDashMatch(line))

\* -------------------------------------------------------------------- parse
FailedLine(parsed) ==
    [lineNumber |-> parsed.lineNumber, content |-> parsed.line,
     reason |-> parsed.reason]

\* what the body of the loop does with a message
Counted(acc, parsed) ==
    [acc EXCEPT !.messages = Append(@, parsed),
                !.stats.parsedMessages = @ + 1,
                !.stats.mediaMessages = IF parsed.hasMedia THEN @ + 1 ELSE @,
                !.stats.systemMessages = IF parsed.isSystem THEN @ + 1 ELSE @]

\* the loop of parse leaving blank lines out of the statistics
RECURSIVE parseLines_blankUncounted(_, _, _)
parseLines_blankUncounted(lines, i, acc) ==
    IF i > Len(lines) THEN acc
    ELSE LET line == trim(lines[i])
             parsed == parseLine(line, i)
         IN  IF line = <<>> \/ parsed = None
             THEN parseLines_blankUncounted(lines, i + 1, acc)
             ELSE IF "failed" \in DOMAIN parsed[1]
             THEN parseLines_blankUncounted(lines, i + 1,
                      [acc EXCEPT !.failedLines =
                                      Append(@, FailedLine(parsed[1])),
                                  !.stats.failedLines = @ + 1])
             ELSE parseLines_blankUncounted(lines, i + 1,
                                            Counted(acc, parsed[1]))

\* the loop of parse numbering the lines from 0
RECURSIVE parseLines_zeroBased(_, _, _)
parseLines_zeroBased(lines, i, acc) ==
    IF i > Len(lines) THEN acc
    ELSE LET line == trim(lines[i])
             parsed == parseLine(line, i - 1)
         IN  IF line = <<>> \/ parsed = None
             THEN parseLines_zeroBased(lines, i + 1,
                      [acc EXCEPT !.stats.emptyLines = @ + 1])
             ELSE IF "failed" \in DOMAIN parsed[1]
             THEN parseLines_zeroBased(lines, i + 1,
                      [acc EXCEPT !.failedLines =
                                      Append(@, FailedLine(parsed[1])),
                                  !.stats.failedLines = @ + 1])
             ELSE parseLines_zeroBased(lines, i + 1, Counted(acc, parsed[1]))

\* the loop of parse giving up at the first line that fails
RECURSIVE parseLines_abortOnFailure(_, _, _)
parseLines_abortOnFailure(lines, i, acc) ==
    IF i > Len(lines) THEN acc
    ELSE LET line == trim(lines[i])
             parsed == parseLine(line, i)
         IN  IF line = <<>> \/ parsed = None
             THEN parseLines_abortOnFailure(lines, i + 1,
                      [acc EXCEPT !.stats.emptyLines = @ + 1])
             ELSE IF "failed" \in DOMAIN parsed[1]
             THEN [acc EXCEPT !.failedLines =
                                  Append(@, FailedLine(parsed[1])),
                              !.stats.failedLines = @ + 1]
             ELSE parseLines_abortOnFailure(lines, i + 1,
                                            Counted(acc, parsed[1]))

\* the loop of parse from line i on (i is 1-based: the code's i + 1); acc
\* holds messages, this.failedLines and stats
RECURSIVE parseLines(_, _, _)
parseLines(lines, i, acc) ==
    IF i > Len(lines) THEN acc
    ELSE LET line == trim(lines[i])
             \* lines 246 to 264, parsed being what parseLine returned
             counted(parsed) ==
                 IF line = <<>> \/ parsed = None
                 THEN [acc EXCEPT !.stats.emptyLines = @ + 1]
                 ELSE IF "failed" \in DOMAIN parsed[1]
                 THEN [acc EXCEPT !.failedLines =
                                      Append(@, FailedLine(parsed[1])),
                                  !.stats.failedLines = @ + 1]
                 ELSE Counted(acc, parsed[1])
         IN  parseLines(lines, i + 1, counted(parseLine(line, i)))

\* parse(content): {messages, failedLines, stats}
parse(content) ==
    LET lines == split(content, {"\n"})
        stats == [totalLines |-> Len(lines), parsedMessages |-> 0,
                  failedLines |-> 0, emptyLines |-> 0, mediaMessages |-> 0,
                  systemMessages |-> 0]
    IN  parseLines(lines, 1, [messages |-> <<>>, failedLines |-> <<>>,
                              stats |-> stats])

\* ------------------------------------------------------- transcript lines
\* the lines the transcripts are made of
SampleLine ==
    [ \* '[1/1/2024, 10:00 AM] Alice: Hello'
      bracket |->
        <<"[","1","/","1","/","2","0","2","4",","," ","1","0",":","0","0"," ","A",
          "M","]"," ","A","l","i","c","e",":"," ","H","e","l","l","o">>,
      \* 'bad line'
      noPattern |->
        <<"b","a","d"," ","l","i","n","e">>,
      \* '1/1/2024, 10:01 AM - Bob: Hi Alice!\r'
      dash |->
        <<"1","/","1","/","2","0","2","4",","," ","1","0",":","0","1"," ","A","M",
          " ","-"," ","B","o","b",":"," ","H","i"," ","A","l","i","c","e","!",
          "\r">>,
      \* '[32/13/2024, 10:02 AM] C: x'
      bracketBadDate |->
        <<"[","3","2","/","1","3","/","2","0","2","4",","," ","1","0",":","0","2",
          " ","A","M","]"," ","C",":"," ","x">>,
      \* '[1/1/2024, 10:03 AM] Alice: <attached: photo.jpg> look'
      attached |->
        <<"[","1","/","1","/","2","0","2","4",","," ","1","0",":","0","3"," ","A",
          "M","]"," ","A","l","i","c","e",":"," ","<","a","t","t","a","c","h","e",
          "d",":"," ","p","h","o","t","o",".","j","p","g",">"," ","l","o","o",
          "k">>,
      \* ''
      blank |->
        <<>>,
      \* ' \t'
      spaces |->
        <<" ","\t">>,
      \* '1/1/2024, 10:02 AM - System action happened'
      system |->
        <<"1","/","1","/","2","0","2","4",","," ","1","0",":","0","2"," ","A","M",
          " ","-"," ","S","y","s","t","e","m"," ","a","c","t","i","o","n"," ","h",
          "a","p","p","e","n","e","d">>,
      \* '31.4.24, 9:15 - Bob: IMG-1.JPG seen'
      dashBadDate |->
        <<"3","1",".","4",".","2","4",","," ","9",":","1","5"," ","-"," ","B","o",
          "b",":"," ","I","M","G","-","1",".","J","P","G"," ","s","e","e","n">>,
      \* '30/2/2024, 23:59:59 - Bob left'
      systemBadDate |->
        <<"3","0","/","2","/","2","0","2","4",","," ","2","3",":","5","9",":","5",
          "9"," ","-"," ","B","o","b"," ","l","e","f","t">>,
      \* '1/1/2024, 10:00 -: hello'
      systemColon |->
        <<"1","/","1","/","2","0","2","4",","," ","1","0",":","0","0"," ","-",":",
          " ","h","e","l","l","o">>,
      \* '[invalid-date, 10:02 AM] Charlie: bad'
      notADate |->
        <<"[","i","n","v","a","l","i","d","-","d","a","t","e",","," ","1","0",":",
          "0","2"," ","A","M","]"," ","C","h","a","r","l","i","e",":"," ","b","a",
          "d">>,
      \* '[1/5/24, 14:30:05] Dan: <Media omitted>'
      omitted |->
        <<"[","1","/","5","/","2","4",","," ","1","4",":","3","0",":","0","5","]",
          " ","D","a","n",":"," ","<","M","e","d","i","a"," ","o","m","i","t","t",
          "e","d",">">> ]
SampleLines == {SampleLine[k] : k \in DOMAIN SampleLine}

\* a transcript: its lines joined by "\n"
RECURSIVE joinLines(_)
joinLines(lines) ==
    IF lines = <<>> THEN <<>>
    ELSE IF Len(lines) = 1 THEN lines[1]
    ELSE lines[1] \o <<"\n">> \o joinLines(Tail(lines))

\* the texts handed to parse: every sequence of at most MaxLines lines
Transcripts ==
    {joinLines(lines) :
        lines \in UNION {[1..n -> SampleLines] : n \in 0..MaxLines}}

\* two more lines: a leading filename under a valid date, and an attachment
\* marker that names nothing
EventLine ==
    [ \* '1/4/24, 9:15 - Bob: IMG-1.JPG seen'
      leading |->
        <<"1","/","4","/","2","4",","," ","9",":","1","5"," ","-"," ","B","o",
          "b",":"," ","I","M","G","-","1",".","J","P","G"," ","s","e","e","n">>,
      \* '[1/1/2024, 10:04 AM] Eve: <attached: >'
      attachedNothing |->
        <<"[","1","/","1","/","2","0","2","4",","," ","1","0",":","0","4"," ","A",
          "M","]"," ","E","v","e",":"," ","<","a","t","t","a","c","h","e","d",":",
          " ",">">> ]
EventTranscripts ==
    {joinLines(lines) :
        lines \in UNION {[1..n ->
                             SampleLines \cup {EventLine.leading,
                                               EventLine.attachedNothing}] :
                         n \in 0..MaxLines}}

\* -------------------------------------------------------- dates and times
\* Number.prototype.toString for a number that is not negative
RECURSIVE toDigits(_)
toDigits(n) ==
    IF n < 10 THEN <<Digits[n + 1]>>
    ELSE toDigits(n \div 10) \o <<Digits[(n % 10) + 1]>>
\* String.prototype.padStart(width, '0')
RECURSIVE padStart(_, _)
padStart(s, width) ==
    IF Len(s) >= width THEN s ELSE padStart(<<"0">> \o s, width)

\* the dates written in the transcripts: day, month, the year written with
\* 2 or 4 digits (0024 for year 24 written with 4), and the separator
SampleDates ==
    [day : {0, 1, 29, 30, 31, 32}, month : {0, 2, 4, 12, 13},
     year : {[n |-> 24, digits |-> 2], [n |-> 49, digits |-> 2],
             [n |-> 50, digits |-> 2], [n |-> 99, digits |-> 2],
             [n |-> 24, digits |-> 4], [n |-> 2024, digits |-> 4]},
     sep : {"/", "."}]
\* the times written in the transcripts: hour, minute, an optional second
\* and an optional AM or PM
SampleTimes ==
    [hour : {0, 1, 11, 12, 13, 23, 24}, minute : {0, 59, 75},
     second : {None, Some(30), Some(60)}, period : {"", "AM", "PM"}]

formatDate(d) ==
    toDigits(d.day) \o <<d.sep>> \o toDigits(d.month) \o <<d.sep>>
        \o padStart(toDigits(d.year.n), d.year.digits)
formatTime(t) ==
    toDigits(t.hour) \o <<":">> \o padStart(toDigits(t.minute), 2)
        \o (IF t.second = None THEN <<>>
            ELSE <<":">> \o padStart(toDigits(t.second[1]), 2))
        \o (IF t.period = "AM" THEN <<" ","A","M">>
            ELSE IF t.period = "PM" THEN <<" ","P","M">> ELSE <<>>)

\* ------------------------------------------------------------------- actions
\* new ZipHandler(options): options.maxCacheSize || 50
Constructed(optMaxCacheSize) ==
    /\ maxCacheSize = IF optMaxCacheSize = 0 THEN DefaultMaxSize
                      ELSE optMaxCacheSize
    /\ cache = <<>>
    /\ accessOrder = <<>>
    /\ mediaFiles = <<>>
    /\ chatContent = None
    /\ chatFilename = None
    /\ isLoaded = FALSE

\* new StateManager()
ConstructedManager ==
    /\ state = InitialState
    /\ subscribers = <<>>
    /\ unsubscribes = {}
    /\ calls = <<>>

Init ==
    /\ \E opt \in 0..MaxCapacity : Constructed(opt)
    /\ created = 0
    /\ revoked = <<>>
    /\ urlLog = <<>>
    /\ useOrder = <<>>
    /\ nextMissing = 0
    /\ alertCalls = 0
    /\ pending = [f \in AllBlobFiles |-> 0]
    /\ failedLines = <<>>
    /\ input = <<>>
    /\ ConstructedManager
    /\ last = [op |-> "new", arg |-> <<>>, ret |-> NoUrl]

RECURSIVE SumPending(_)
SumPending(files) ==
    IF files = {} THEN 0
    ELSE LET f == CHOOSE x \in files : TRUE
         IN  pending[f] + SumPending(files \ {f})

GetMediaURL(filename) ==
    LET z == getMediaURL(Self, filename)
    IN  /\ z.created <= MaxUrls
        /\ Commit(z)
        /\ last' = [op |-> "getMediaURL", arg |-> filename, ret |-> z.ret]
        /\ UNCHANGED <<nextMissing, pending>>

PreloadMedia(filenames) ==
    LET z == preloadMedia(Self, filenames)
    IN  /\ z.created <= MaxUrls
        /\ Commit(z)
        /\ last' = [op |-> "preloadMedia", arg |-> filenames, ret |-> z.ret]
        /\ UNCHANGED <<nextMissing, pending>>

EvictFromCache(filename) ==
    LET z == evictFromCache(Self, filename)
    IN  /\ Commit(z)
        /\ last' = [op |-> "evictFromCache", arg |-> filename, ret |-> NoUrl]
        /\ UNCHANGED <<nextMissing, pending>>

Clear ==
    LET z == clear(Self)
    IN  /\ Commit(z)
        /\ nextMissing' = 0
        /\ last' = [op |-> "clear", arg |-> <<>>, ret |-> NoUrl]
        /\ UNCHANGED pending

\* loadZip up to its await: a value that is no Blob is rejected at once, a
\* Blob suspends the call until its bytes have been read
LoadZipCallWithin(limit, file) ==
    /\ file.blob => SumPending(AllBlobFiles) < limit
    /\ pending' = IF file.blob THEN [pending EXCEPT ![file] = @ + 1]
                  ELSE pending
    /\ last' = IF file.blob
               THEN [op |-> "loadZip:await", arg |-> file, ret |-> NoUrl]
               ELSE [op |-> "loadZip", arg |-> file,
                     ret |-> [success |-> FALSE,
                              error |-> "Invalid file provided"]]
    /\ Commit(Self)
    /\ UNCHANGED nextMissing

LoadZipCall(file) == LoadZipCallWithin(MaxPending, file)

LoadZipResume(file, fflate) ==
    LET z == loadZipAfterAwait(Self, file, fflate)
    IN  /\ pending[file] > 0
        /\ pending' = [pending EXCEPT ![file] = @ - 1]
        /\ Commit(z)
        /\ nextMissing' = IF z.ret.success THEN 0 ELSE nextMissing
        /\ last' = [op |-> "loadZip", arg |-> file, ret |-> z.ret]

\* handler.getMemoryEstimate()
GetMemoryEstimate ==
    /\ Commit(Self)
    /\ last' = [op |-> "getMemoryEstimate", arg |-> NoUrl,
                ret |-> getMemoryEstimate(Self)]
    /\ UNCHANGED <<nextMissing, pending>>

\* mediaHandler.createMediaElement(filename)
CreateMediaElement(filename) ==
    LET z == createMediaElement(Self, filename)
    IN  /\ z.created <= MaxUrls
        /\ Commit(z)
        /\ last' = [op |-> "createMediaElement", arg |-> filename,
                    ret |-> z.ret]
        /\ UNCHANGED <<nextMissing, pending>>

\* urlCache.get(key), called on the cache itself
UrlCacheGet(key) ==
    LET got == LRUget(Self, key)
        z == IF got.ret # NoUrl THEN Used(got, key) ELSE got
    IN  /\ Commit(z)
        /\ last' = [op |-> "urlCache.get", arg |-> key, ret |-> z.ret]
        /\ UNCHANGED <<nextMissing, pending>>

\* urlCache.set(key, url, onEvict) with a URL just created and the callback
\* of getMediaURL, called on the cache itself: the key may be cached already
UrlCacheSet(key) ==
    LET made == createObjectURL(Self)
        z == Used(LRUset(made, key, made.ret), key)
    IN  /\ z.created <= MaxUrls
        /\ Commit(z)
        /\ last' = [op |-> "urlCache.set", arg |-> key, ret |-> made.ret]
        /\ UNCHANGED <<nextMissing, pending>>

\* getMediaURL('missing<i>.jpg') for the next i: a name no archive holds
missingName(i) ==
    <<"m","i","s","s","i","n","g", ToString(i), ".","j","p","g">>

GetMediaURLMissing ==
    LET z == getMediaURL(Self, missingName(nextMissing))
    IN  /\ nextMissing < MaxMissing
        /\ Commit(z)
        /\ nextMissing' = nextMissing + 1
        /\ last' = [op |-> "getMediaURL", arg |-> missingName(nextMissing),
                    ret |-> z.ret]
        /\ UNCHANGED pending

\* getMediaURL of the missing name resolved last, once more
GetMediaURLMissingAgain ==
    LET z == getMediaURL(Self, missingName(nextMissing - 1))
    IN  /\ nextMissing > 0
        /\ Commit(z)
        /\ last' = [op |-> "getMediaURL",
                    arg |-> missingName(nextMissing - 1), ret |-> z.ret]
        /\ UNCHANGED <<nextMissing, pending>>

\* ---------------------------------------------------- bodies and filenames
\* the bodies handed to extractMediaInfo: what the body starts with, a
\* phrase, and attachment markers
SampleTexts ==
    LET leads ==
            { <<>>, <<"I","M","G","-","1",".","J","P","G">>,
              <<"m","y"," ","p","h","o","t","o",".","p","n","g">>,
              <<"n","o","t","e","s",".","x","y","z">>,
              <<"v","1",".","2",".","m","p","4">>, <<"s","e","e">> }
        rests ==
            { <<>>,
              <<" ","i","m","a","g","e"," ","o","m","i","t","t","e","d">>,
              <<" ","<","M","e","d","i","a"," ","o","m","i","t","t","e","d",">">>,
              <<" ","n","o","w">> }
        tags ==
            { <<>>,
              <<" ","<","a","t","t","a","c","h","e","d",":"," ","c","l","i","p",".","m","p","4",">">>,
              <<" ","<","a","t","t","a","c","h","e","d",":","a"," ","b",".","P","D","F"," ",">"," ","<","a","t","t","a","c","h","e","d",":"," ","x",".","v","c","f",">">>,
              <<" ","<","a","t","t","a","c","h","e","d",":",">">> }
    IN  { lead \o rest \o tag : lead \in leads, rest \in rests, tag \in tags }

\* the filenames handed to the classifiers: every extension of the two
\* tables, some in upper case, unlisted ones, and names without a dot
SampleFilenames ==
    LET stems == { <<"a">>, <<"I","M","G","-","1",".","v","2">> }
        extensions ==
            { <<"j","p","g">>, <<"j","p","e","g">>, <<"p","n","g">>,
              <<"g","i","f">>, <<"w","e","b","p">>, <<"m","p","4">>,
              <<"3","g","p">>, <<"m","o","v">>, <<"a","v","i">>,
              <<"m","k","v">>, <<"w","e","b","m">>, <<"o","p","u","s">>,
              <<"m","p","3">>, <<"a","a","c">>, <<"m","4","a">>,
              <<"w","a","v">>, <<"p","d","f">>, <<"d","o","c">>,
              <<"d","o","c","x">>, <<"x","l","s">>, <<"x","l","s","x">>,
              <<"p","p","t">>, <<"p","p","t","x">>, <<"t","x","t">>,
              <<"v","c","f">>, <<"b","m","p">>, <<"w","m","v">>,
              <<"o","g","g">>, <<"w","m","a">>, <<"x","y","z">>,
              <<"c","o","n","s","t","r","u","c","t","o","r">>,
              <<"_","_","p","r","o","t","o","_","_">>, <<"J","P","G">>,
              <<"V","c","f">>, <<"O","P","U","S">> }
    IN  { stem \o <<".">> \o ext : stem \in stems, ext \in extensions }
            \cup { <<"R","E","A","D","M","E">>, <<"j","p","g">> }

\* ---------------------------------------------------------------- messages
\* the messages of the lists handed to the state manager and to
\* getParticipants
SampleMessage ==
    [ alice |->
        [sender |-> <<"A","l","i","c","e">>, text |-> <<"H","e","l","l","o"," ","B","o","b">>,
         isSystem |-> FALSE, hasMedia |-> FALSE, mediaType |-> "null",
         date |-> Some(2)],
      bob |->
        [sender |-> <<"B","o","b">>, text |-> <<"p","h","o","t","o">>,
         isSystem |-> FALSE, hasMedia |-> TRUE, mediaType |-> "image",
         date |-> Some(1)],
      \* a system message
      left |->
        [sender |-> <<"S","y","s","t","e","m">>, text |-> <<"B","o","b"," ","l","e","f","t">>,
         isSystem |-> TRUE, hasMedia |-> FALSE, mediaType |-> "null",
         date |-> Some(3)],
      \* a message of a participant called System
      system |->
        [sender |-> <<"S","y","s","t","e","m">>, text |-> <<"h","i"," ","a","l","l">>,
         isSystem |-> FALSE, hasMedia |-> TRUE, mediaType |-> "document",
         date |-> Some(4)],
      \* a message without a date
      al |->
        [sender |-> <<"a","l">>, text |-> <<"n","o","t","e","s">>,
         isSystem |-> FALSE, hasMedia |-> TRUE, mediaType |-> "file",
         date |-> None] ]

SampleMessageLists ==
    UNION { [1..n -> {SampleMessage[name] : name \in DOMAIN SampleMessage}] :
                n \in 0..MaxMessages }

\* the lists handed to setMessages and the filters handed to applyFilter
StateMessageLists ==
    { <<>>,
      <<SampleMessage.alice, SampleMessage.bob, SampleMessage.left>>,
      <<SampleMessage.bob, SampleMessage.al>> }
SampleFilters ==
    { [text |-> <<"B","O">>],
      [type |-> "media", text |-> <<>>],
      [dateRange |-> Some([start |-> 2, end |-> 3])] }

\* what localStorage holds under 'wa-viewer-state': nothing, a text that is
\* no JSON, '{}', the item saveToStorage writes after applyFilter({text:
\* 'BO'}) and the item of the test, whose filter has a text and a type
SavedItems ==
    { [kind |-> "null", filter |-> None],
      [kind |-> "invalid", filter |-> None],
      [kind |-> "json", filter |-> None],
      [kind |-> "json",
       filter |-> Some([text |-> <<"B","O">>, type |-> "all",
                        dateRange |-> None])],
      [kind |-> "json",
       filter |-> Some([text |-> <<>>, type |-> "media"])] }

\* the filters handed to filterMessages
FilterValues ==
    [text : {<<>>, <<"B","O">>, <<"a","l">>},
     type : {"all", "media", "documents"},
     dateRange : {None, Some([start |-> 2, end |-> 3])}]

\* a handler that nothing has been done with
Fresh ==
    /\ Constructed(0)
    /\ created = 0
    /\ revoked = <<>>
    /\ urlLog = <<>>
    /\ useOrder = <<>>
    /\ nextMissing = 0
    /\ alertCalls = 0
    /\ pending = [f \in AllBlobFiles |-> 0]
    /\ ConstructedManager
    /\ last = [op |-> "new", arg |-> <<>>, ret |-> NoUrl]

\* a parser about to be handed a transcript; it is new, or it has parsed a
\* transcript before and holds the failed line of that
StaleFailedLines ==
    << [lineNumber |-> 7, content |-> SampleLine.noPattern,
        reason |-> "No matching pattern"] >>

InitParse ==
    /\ Fresh
    /\ failedLines \in {<<>>, StaleFailedLines}
    /\ input \in Transcripts

\* parser.parse(content)
Parse ==
    LET result == parse(input)
    IN  /\ last.op = "new"
        /\ failedLines' = result.failedLines
        /\ last' = [op |-> "parse", arg |-> input, ret |-> result]
        /\ UNCHANGED <<maxCacheSize, cache, accessOrder, mediaFiles,
                       chatContent, chatFilename, isLoaded, created, revoked,
                       urlLog, useOrder, nextMissing, alertCalls, pending,
                       input, manager>>

\* a parser about to be handed a date and a time as they are written in a
\* transcript
InitDate ==
    /\ Fresh
    /\ failedLines = <<>>
    /\ input \in [date : SampleDates, time : SampleTimes]

\* parser.parseDate(dateStr, timeStr)
ParseDate ==
    /\ last.op = "new"
    /\ last' = [op |-> "parseDate", arg |-> input,
                ret |-> parseDate(formatDate(input.date),
                                 formatTime(input.time))]
    /\ UNCHANGED <<maxCacheSize, cache, accessOrder, mediaFiles, chatContent,
                   chatFilename, isLoaded, created, revoked, urlLog, useOrder,
                   nextMissing, alertCalls, pending, failedLines, input,
                   manager>>

\* a parser about to be handed a transcript of events of every kind
InitEvent ==
    /\ Fresh
    /\ failedLines = <<>>
    /\ input \in EventTranscripts

\* a parser and a media handler about to be handed a body or a filename
InitMedia ==
    /\ Fresh
    /\ failedLines = <<>>
    /\ input \in SampleTexts \cup SampleFilenames

\* parser.extractMediaInfo(text)
ExtractMediaInfo ==
    /\ last.op = "new"
    /\ last' = [op |-> "extractMediaInfo", arg |-> input,
                ret |-> extractMediaInfo(input)]
    /\ UNCHANGED <<maxCacheSize, cache, accessOrder, mediaFiles, chatContent,
                   chatFilename, isLoaded, created, revoked, urlLog, useOrder,
                   nextMissing, alertCalls, pending, failedLines, input,
                   manager>>

\* parser.getMediaType(filename)
GetMediaType ==
    /\ last.op = "new"
    /\ last' = [op |-> "getMediaType", arg |-> input,
                ret |-> getMediaType(input)]
    /\ UNCHANGED <<maxCacheSize, cache, accessOrder, mediaFiles, chatContent,
                   chatFilename, isLoaded, created, revoked, urlLog, useOrder,
                   nextMissing, alertCalls, pending, failedLines, input,
                   manager>>

\* mediaHandler.getMediaType(filename)
MediaHandlerGetMediaType ==
    /\ last.op = "new"
    /\ last' = [op |-> "MediaHandler.getMediaType", arg |-> input,
                ret |-> MediaHandler_getMediaType(input)]
    /\ UNCHANGED <<maxCacheSize, cache, accessOrder, mediaFiles, chatContent,
                   chatFilename, isLoaded, created, revoked, urlLog, useOrder,
                   nextMissing, alertCalls, pending, failedLines, input,
                   manager>>

\* zipHandler.isMediaFile(filename)
IsMediaFile ==
    /\ last.op = "new"
    /\ last' = [op |-> "isMediaFile", arg |-> input,
                ret |-> isMediaFile(input)]
    /\ UNCHANGED <<maxCacheSize, cache, accessOrder, mediaFiles, chatContent,
                   chatFilename, isLoaded, created, revoked, urlLog, useOrder,
                   nextMissing, alertCalls, pending, failedLines, input,
                   manager>>

\* a parser and a state manager about to be handed a list of messages
InitStats ==
    /\ Fresh
    /\ failedLines = <<>>
    /\ input \in SampleMessageLists

\* parser.getParticipants(messages)
GetParticipants ==
    /\ last.op = "new"
    /\ last' = [op |-> "getParticipants", arg |-> input,
                ret |-> getParticipants(input)]
    /\ UNCHANGED <<maxCacheSize, cache, accessOrder, mediaFiles, chatContent,
                   chatFilename, isLoaded, created, revoked, urlLog, useOrder,
                   nextMissing, alertCalls, pending, failedLines, input,
                   manager>>

\* stateManager.calculateStats(messages)
CalculateStats ==
    /\ last.op = "new"
    /\ last' = [op |-> "calculateStats", arg |-> input,
                ret |-> calculateStats(input)]
    /\ UNCHANGED <<maxCacheSize, cache, accessOrder, mediaFiles, chatContent,
                   chatFilename, isLoaded, created, revoked, urlLog, useOrder,
                   nextMissing, alertCalls, pending, failedLines, input,
                   manager>>

\* ---------------------------------------------------- state manager actions
\* a state manager nothing has been done with
InitState ==
    /\ Fresh
    /\ failedLines = <<>>
    /\ input = <<>>

\* what an operation of the manager leaves behind
CommitManager(m, op, arg) ==
    /\ state' = m.state
    /\ subscribers' = m.subscribers
    /\ calls' = m.calls
    /\ last' = [op |-> op, arg |-> arg,
                ret |-> [emitted |-> m.emitted, thrown |-> m.thrown]]
    /\ UNCHANGED <<maxCacheSize, cache, accessOrder, mediaFiles, chatContent,
                   chatFilename, isLoaded, created, revoked, urlLog, useOrder,
                   nextMissing, alertCalls, pending, failedLines, input>>

\* stateManager.subscribe(event, callback), keeping what it returns
Subscribe(event, callback) ==
    /\ Cardinality(unsubscribes \cup {<<event, callback>>}) <= MaxSubscriptions
    /\ unsubscribes' = unsubscribes \cup {<<event, callback>>}
    /\ CommitManager(subscribe(Manager, event, callback), "subscribe",
                     <<event, callback>>)

\* a call of an unsubscribe function returned before
Unsubscribe(event, callback) ==
    /\ <<event, callback>> \in unsubscribes
    /\ UNCHANGED unsubscribes
    /\ CommitManager(unsubscribe(Manager, event, callback), "unsubscribe",
                     <<event, callback>>)

\* stateManager.emit(event, { data: 'test' })
Emit(event) ==
    /\ UNCHANGED unsubscribes
    /\ CommitManager(emit(Manager, event, [data |-> "test"]), "emit", event)

SetMessages(messages) ==
    /\ UNCHANGED unsubscribes
    /\ CommitManager(setMessages(Manager, messages), "setMessages", messages)

ApplyFilter(filter) ==
    /\ UNCHANGED unsubscribes
    /\ CommitManager(applyFilter(Manager, filter), "applyFilter", filter)

\* stateManager.clearFilter(filterType); "undefined" is the call without an
\* argument
ClearFilter(filterType) ==
    /\ UNCHANGED unsubscribes
    /\ CommitManager(clearFilter(Manager, filterType), "clearFilter",
                     filterType)

\* stateManager.loadFromStorage() over an item of localStorage
LoadFromStorage(saved) ==
    LET loaded == loadFromStorage(Manager, saved)
    IN  /\ state' = loaded.state
        /\ last' = [op |-> "loadFromStorage", arg |-> saved,
                    ret |-> [emitted |-> <<>>, thrown |-> FALSE,
                             returned |-> loaded.returned]]
        /\ UNCHANGED <<maxCacheSize, cache, accessOrder, mediaFiles,
                       chatContent, chatFilename, isLoaded, created, revoked,
                       urlLog, useOrder, nextMissing, alertCalls, pending,
                       failedLines, input, subscribers, unsubscribes, calls>>

\* stateManager.clear()
ClearState ==
    /\ UNCHANGED unsubscribes
    /\ CommitManager(StateManager_clear(Manager), "clear", <<>>)

\* a state manager about to be handed messages and a filter
InitFilter ==
    /\ Fresh
    /\ failedLines = <<>>
    /\ input \in [messages : SampleMessageLists, filter : FilterValues]

\* stateManager.filterMessages(messages, filter)
FilterMessages ==
    /\ last.op = "new"
    /\ last' = [op |-> "filterMessages", arg |-> input,
                ret |-> filterMessages(input.messages, input.filter)]
    /\ UNCHANGED <<maxCacheSize, cache, accessOrder, mediaFiles, chatContent,
                   chatFilename, isLoaded, created, revoked, urlLog, useOrder,
                   nextMissing, alertCalls, pending, failedLines, input,
                   manager>>

Next ==
    \/ \E filename \in Requested : GetMediaURL(filename)
    \/ \E n \in 1..MaxPreload : \E filenames \in [1..n -> Preloaded] :
           PreloadMedia(filenames)
    \/ \E filename \in Requested : EvictFromCache(filename)
    \/ Clear
    \/ \E file \in Files : LoadZipCall(file)
    \/ \E file \in BlobFiles : \E fflate \in BOOLEAN :
           LoadZipResume(file, fflate)

Spec == Init /\ [][Next]_vars

\* the run of the test "should warn when too many files are missing": one
\* archive, then lookups of names it does not hold
NextMissing ==
    \/ LoadZipCall(FileA)
    \/ LoadZipResume(FileA, TRUE)
    \/ GetMediaURLMissing
    \/ GetMediaURLMissingAgain
    \/ Clear

SpecMissing == Init /\ [][NextMissing]_vars

\* loads of archives of every shape, one after the other, with resolves and
\* clears in between
NextLoad ==
    \/ \E file \in ArchiveFiles : LoadZipCall(file)
    \/ \E file \in ArchiveFiles : LoadZipResume(file, TRUE)
    \/ GetMediaURL(fn.a_jpg)
    \/ Clear

SpecLoad == Init /\ [][NextLoad]_vars

\* the parser on its own: a transcript is parsed
NextParse == Parse

SpecParse == InitParse /\ [][NextParse]_vars

\* parseDate on its own
NextDate == ParseDate

SpecDate == InitDate /\ [][NextDate]_vars

\* media extraction and the classifiers on their own
NextMedia ==
    \/ ExtractMediaInfo
    \/ GetMediaType
    \/ MediaHandlerGetMediaType
    \/ IsMediaFile

SpecMedia == InitMedia /\ [][NextMedia]_vars

\* the statistics of a list of messages on their own
NextStats ==
    \/ GetParticipants
    \/ CalculateStats

SpecStats == InitStats /\ [][NextStats]_vars

\* the memory estimate of two archives, between resolves and evictions
NextMemory ==
    \/ \E file \in {FileA, FileB} : LoadZipCall(file)
    \/ \E file \in {FileA, FileB} : LoadZipResume(file, TRUE)
    \/ \E filename \in Requested : GetMediaURL(filename)
    \/ \E filename \in Requested : EvictFromCache(filename)
    \/ GetMemoryEstimate

SpecMemory == Init /\ [][NextMemory]_vars

\* the state manager on its own
NextState ==
    \/ \E event \in Events : \E callback \in Callbacks :
           Subscribe(event, callback)
    \/ \E event \in Events : \E callback \in Callbacks :
           Unsubscribe(event, callback)
    \/ \E event \in Events : Emit(event)
    \/ \E messages \in StateMessageLists : SetMessages(messages)
    \/ \E filter \in SampleFilters : ApplyFilter(filter)
    \/ \E filterType \in {"text", "type", "dateRange", "undefined"} :
           ClearFilter(filterType)
    \/ ClearState

SpecState == InitState /\ [][NextState]_vars

\* filterMessages on its own
NextFilter == FilterMessages

SpecFilter == InitFilter /\ [][NextFilter]_vars

\* messages rendered from a loaded archive and from none
NextRender ==
    \/ LoadZipCall(FileA)
    \/ LoadZipResume(FileA, TRUE)
    \/ \E filename \in Requested : CreateMediaElement(filename)

SpecRender == Init /\ [][NextRender]_vars

\* loadZip called again while earlier calls still await their bytes, which
\* arrive in any order; pictures are resolved in between
NextOverlap ==
    \/ \E file \in BlobFiles : LoadZipCallWithin(MaxOverlapping, file)
    \/ \E file \in BlobFiles : LoadZipResume(file, TRUE)
    \/ \E filename \in {fn.a_jpg, fn.b_PNG} : GetMediaURL(filename)

SpecOverlap == Init /\ [][NextOverlap]_vars

\* the cache on its own: get and set interleaved with evictFromCache and
\* clear
NextCache ==
    \/ \E key \in CacheKeys : UrlCacheGet(key)
    \/ \E key \in CacheKeys : UrlCacheSet(key)
    \/ \E key \in CacheKeys : EvictFromCache(key)
    \/ Clear

SpecCache == Init /\ [][NextCache]_vars

\* the state manager with the saved filter loaded between its operations
NextStorage ==
    \/ \E messages \in StateMessageLists : SetMessages(messages)
    \/ \E filter \in SampleFilters : ApplyFilter(filter)
    \/ \E filterType \in {"text", "type", "dateRange", "undefined"} :
           ClearFilter(filterType)
    \/ \E saved \in SavedItems : LoadFromStorage(saved)
    \/ ClearState

SpecStorage == InitState /\ [][NextStorage]_vars

\* the events of a transcript
SpecEvent == InitEvent /\ [][NextParse]_vars

\* ------------------------------------------------------------- type checking
TypeOK ==
    /\ maxCacheSize \in 1..DefaultMaxSize
    /\ DOMAIN cache \subseteq Requested
    /\ created \in 0..MaxUrls
    /\ Len(revoked) = created
    /\ isLoaded \in BOOLEAN

\* ==================================================================== claims
\* the URLs created and not revoked
Live == {u \in 1..created : revoked[u] = 0}

\* the number of URLs created and not revoked right after the k-th URL call
\* of the last operation (k = 0: when the operation began)
LiveAfter(k) ==
    Cardinality(Live)
      - Cardinality({i \in (k + 1)..Len(urlLog) : urlLog[i][1] = "create"})
      + Cardinality({i \in (k + 1)..Len(urlLog) : urlLog[i][1] = "revoke"})

Evicting == \E i \in 1..Len(urlLog) : urlLog[i][1] = "revoke"

\* C1: in every reachable state the URL cache holds at most maxCacheSize
\* display handles.
C1_CacheWithinCapacity == Cardinality(DOMAIN cache) <= maxCacheSize

\* a resolve has just evicted an entry and the cache is full again
C1_Witness ==
    /\ last.op = "getMediaURL"
    /\ Evicting
    /\ Cardinality(DOMAIN cache) = maxCacheSize

C3_HandlesCachedOrReleasedOnce ==
    /\ \A u \in 1..created :
          IF u \in Range(cache) THEN revoked[u] = 0 ELSE revoked[u] = 1
    /\ \A f, g \in DOMAIN cache : cache[f] = cache[g] => f = g
    /\ Range(cache) \subseteq 1..created

\* one handle is cached, one was released by LRU eviction or clear, and one
\* by evictFromCache
C3_Witness ==
    /\ last.op = "evictFromCache"
    /\ Len(urlLog) = 1
    /\ cache # <<>>
    /\ Cardinality(Live) + 2 <= created

\* C4: resolving a media filename of the archive returns the cached handle,
\* creates nothing and leaves the cached handles alone when the filename is
\* cached; otherwise it creates exactly one handle, never handed out before,
\* caches it for the filename and returns it.
C4_HitIffCached ==
    [][\A f \in Requested :
          (last'.op = "getMediaURL" /\ last'.arg = f
             /\ f \in DOMAIN mediaFiles)
          => IF f \in DOMAIN cache
             THEN /\ last'.ret = cache[f]
                  /\ created' = created
                  /\ cache' = cache
                  /\ revoked' = revoked
             ELSE /\ created' = created + 1
                  /\ last'.ret = created'
                  /\ f \in DOMAIN cache'
                  /\ cache'[f] = created'
                  /\ created' \notin Range(cache)]_vars

\* a resolve hit the newest handle after an older handle had been released
C4_Witness ==
    /\ last.op = "getMediaURL"
    /\ urlLog = <<>>
    /\ last.ret # NoUrl
    /\ last.ret = created
    /\ Cardinality(Live) < created

\* C5: a resolve that misses with the cache at capacity evicts exactly one
\* entry, the cached filename whose most recent resolve is the oldest; all
\* other entries keep their handles.
C5_EvictsLeastRecentlyResolved ==
    [][\A f \in Requested :
          (last'.op = "getMediaURL" /\ last'.arg = f
             /\ f \in DOMAIN mediaFiles /\ f \notin DOMAIN cache
             /\ Cardinality(DOMAIN cache) = maxCacheSize)
          => /\ DOMAIN cache \ DOMAIN cache' = {Head(useOrder)}
             /\ \A g \in DOMAIN cache \ {Head(useOrder)} :
                   cache'[g] = cache[g]
             /\ revoked'[cache[Head(useOrder)]] = 1]_vars

\* the evicted handle is newer than one that stays cached: a hit had made
\* the older entry the more recently used one
C5_Witness ==
    /\ last.op = "getMediaURL"
    /\ Len(urlLog) = 2
    /\ urlLog[2][1] = "revoke"
    /\ \E u \in Range(cache) : u < urlLog[2][2]

\* C6: resolving a filename that is no media entry of the loaded archive
\* returns null and leaves the cache, its order and every handle alone.
C6_AbsentLeavesCacheAlone ==
    [][\A f \in Requested :
          (last'.op = "getMediaURL" /\ last'.arg = f
             /\ f \notin DOMAIN mediaFiles)
          => /\ last'.ret = NoUrl
             /\ cache' = cache
             /\ accessOrder' = accessOrder
             /\ created' = created
             /\ revoked' = revoked
             /\ urlLog' = <<>>]_vars

\* an absent name was resolved while the cache held handles
C6_Witness ==
    /\ last.op = "getMediaURL"
    /\ last.arg # <<>>
    /\ last.arg \notin DOMAIN mediaFiles
    /\ last.ret = NoUrl
    /\ Cardinality(DOMAIN cache) = maxCacheSize

\* the payloads an archive holds
ArchiveData(file) ==
    {unzipSync(file)[i].data : i \in 1..Len(unzipSync(file))}

\* C7 as stated: a resolve of an absent filename records it, and the
\* missing count getCacheStats reports is the number of distinct absent
\* filenames resolved since the last clear or load.
C7_MissingCounted ==
    (last.op = "getMediaURL" /\ nextMissing > 0)
        => /\ "missingFiles" \in DOMAIN getCacheStats
           /\ getCacheStats.missingFiles = nextMissing

\* C8 as stated: once more than 10,000 distinct missing filenames have been
\* resolved for the loaded archive, the alert has been emitted exactly once.
C8_AlertedOncePastThreshold ==
    nextMissing >= MissingLookups => alertCalls = 1

\* C9: a successful loadZip leaves nothing of what was there before: every
\* handle that was cached has been released and the cache is empty, every
\* media entry and the transcript come from the archive just loaded.  (The
\* handler keeps no set of missing names, so none can survive the load.)
C9_LoadDiscardsPrevious ==
    [][(last'.op = "loadZip" /\ last'.ret.success)
          => /\ cache' = <<>>
             /\ accessOrder' = <<>>
             /\ \A u \in Range(cache) : revoked'[u] = 1
             /\ Live' = {}
             /\ \A f \in DOMAIN mediaFiles' :
                   mediaFiles'[f] \in ArchiveData(last'.arg)
             /\ chatContent' # None =>
                   /\ chatContent'[1] \in
                         {decode(d.bytes) : d \in ArchiveData(last'.arg)}
                   /\ chatFilename'[1] \in
                         {splitPop(unzipSync(last'.arg)[i].path, "/") :
                             i \in 1..Len(unzipSync(last'.arg))}
             /\ chatContent' = None => chatFilename' = None
             /\ isLoaded']_vars

\* archive B has been loaded over an archive whose handles were cached: the
\* load released them
C9_Witness ==
    /\ last.op = "loadZip"
    /\ last.ret.success
    /\ last.arg = FileB
    /\ Evicting
    /\ fn.a_jpg \in DOMAIN mediaFiles

\* C10: a loadZip that fails rejects with an error and changes nothing:
\* transcript, media entries, cached handles, handles and loaded flag are
\* as they were, and the call is not started again.
C10_FailedLoadCommitsNothing ==
    [][(last'.op = "loadZip" /\ ~last'.ret.success)
          => /\ UNCHANGED <<cache, accessOrder, mediaFiles, chatContent,
                            chatFilename, isLoaded, created, revoked,
                            maxCacheSize>>
             /\ last'.ret.error # ""
             /\ \A file \in BlobFiles : pending'[file] <= pending[file]]_vars

\* a load of a corrupt archive failed on a handler that holds an archive
\* and cached handles
C10_Witness ==
    /\ last.op = "loadZip"
    /\ ~last.ret.success
    /\ last.arg = FileCorrupt
    /\ isLoaded
    /\ chatContent # None
    /\ cache # <<>>

C12_EvictRemovesExactlyOne ==
    [][\A f \in Requested :
          (last'.op = "evictFromCache" /\ last'.arg = f)
             => /\ created' = created
                /\ UNCHANGED <<mediaFiles, chatContent, chatFilename,
                               isLoaded>>
                /\ IF f \in DOMAIN cache
                   THEN /\ cache' = Without(cache, f)
                        /\ accessOrder' = Drop(accessOrder, f)
                        /\ revoked' = [revoked EXCEPT ![cache[f]] = @ + 1]
                        /\ revoked'[cache[f]] = 1
                        /\ urlLog' = << <<"revoke", cache[f]>> >>
                   ELSE /\ UNCHANGED <<cache, accessOrder, revoked>>
                        /\ urlLog' = <<>>]_vars

\* an entry that was not the least recently used one has been evicted: an
\* entry cached before it is still cached, with its handle live
C12_Witness ==
    /\ last.op = "evictFromCache"
    /\ Len(urlLog) = 1
    /\ last.arg \notin DOMAIN cache
    /\ \E g \in DOMAIN cache :
          /\ cache[g] < urlLog[1][2]
          /\ revoked[cache[g]] = 0
    /\ Len(accessOrder) = Cardinality(DOMAIN cache)

\* ---------------------------------------------------- what an archive holds
\* the loaded archive of the state: the last operation was a loadZip that
\* succeeded
Loaded == last.op = "loadZip" /\ last.ret.success
BaseName(file, i) == splitPop(unzipSync(file)[i].path, "/")
EntryData(file, i) == unzipSync(file)[i].data
EntryText(file, i) == decode(unzipSync(file)[i].data.bytes)
\* the entries whose name ends in .txt
TxtEntries(file) ==
    {i \in 1..Len(unzipSync(file)) :
        endsWith(BaseName(file, i), <<".","t","x","t">>)}
Lowest(S) == CHOOSE i \in S : \A j \in S : i <= j
\* the payloads the handler retains as media
Retained == {mediaFiles[f] : f \in DOMAIN mediaFiles}

C14_MediaEntriesAreKnownNonTranscripts ==
    Loaded
        => LET file == last.arg
               others ==
                   {i \in 1..Len(unzipSync(file)) :
                       /\ chatFilename # None =>
                             BaseName(file, i) # chatFilename[1]
                       /\ isMediaFile(BaseName(file, i))}
           IN  /\ DOMAIN mediaFiles = {BaseName(file, i) : i \in others}
               /\ \A f \in DOMAIN mediaFiles :
                     \E i \in others : /\ BaseName(file, i) = f
                                       /\ EntryData(file, i) = mediaFiles[f]
               /\ last.ret.mediaCount = Cardinality(DOMAIN mediaFiles)
               /\ last.ret.mediaFiles = DOMAIN mediaFiles

\* C15 as stated: loadZip of a decompressible archive succeeds; chatFound
\* is true exactly when the archive has a .txt entry, and chatFilename is
\* then the basename of the first one; with no .txt entry chatFound is
\* false, chatFilename null, and the media entries are retained.
C15_ChatFoundIffTranscriptEntry ==
    (last.op = "loadZip" /\ last.arg \in ArchiveFiles)
        => /\ last.ret.success
           /\ last.ret.chatFound = (TxtEntries(last.arg) # {})
           /\ TxtEntries(last.arg) # {} =>
                 last.ret.chatFilename
                     = Some(BaseName(last.arg, Lowest(TxtEntries(last.arg))))
           /\ TxtEntries(last.arg) = {} =>
                 /\ last.ret.chatFilename = None
                 /\ last.ret.mediaCount > 0
                 /\ last.ret.mediaFiles = DOMAIN mediaFiles

\* ------------------------------------------------ what a transcript holds
\* the lines of the transcript that was parsed, and the blank ones
InputLines == split(last.arg, {"\n"})
BlankLines == {i \in 1..Len(InputLines) : trim(InputLines[i]) = <<>>}

\* C16: for every transcript text the result of parse satisfies
\* parsedMessages + failedLines + emptyLines = totalLines, messages.length =
\* parsedMessages and failedLines.length = stats.failedLines; the blank
\* lines are counted, and none of them gives a message or a failed line.
C16_CountersAddUp ==
    last.op = "parse"
        => LET r == last.ret
           IN  /\ r.stats.totalLines = Cardinality({i \in 1..Len(last.arg) : last.arg[i] = "\n"}) + 1
               /\ r.stats.parsedMessages + r.stats.failedLines
                      + r.stats.emptyLines = r.stats.totalLines
               /\ Len(r.messages) = r.stats.parsedMessages
               /\ Len(r.failedLines) = r.stats.failedLines
               /\ failedLines = r.failedLines
               /\ r.stats.emptyLines = Cardinality(BlankLines)
               /\ \A k \in 1..Len(r.failedLines) :
                     r.failedLines[k].lineNumber \notin BlankLines
               /\ Len(r.messages) + Len(r.failedLines)
                     = Len(InputLines) - Cardinality(BlankLines)

\* a transcript of a blank line and a line that fails has been parsed by a
\* parser that held the failed line of an earlier transcript
C16_Witness ==
    /\ last.op = "parse"
    /\ last.ret.stats.totalLines = 2
    /\ last.ret.stats.emptyLines = 1
    /\ last.ret.stats.failedLines = 1
    /\ Len(failedLines) = 1
    /\ failedLines # StaleFailedLines

\* the form of a line: the first of the three patterns, in the order
\* bracket, dash, system, that it matches, a system line being one whose
\* text has no colon
FormOf(line) ==
    IF bracketMatch(line).ok THEN "bracket"
    ELSE IF dashMatch(line).ok THEN "dash"
    ELSE IF /\ systemDashMatch(line).ok
            /\ \A k \in 1..Len(systemDashMatch(line).text) :
                  systemDashMatch(line).text[k] # ":"
    THEN "system"
    ELSE "none"
\* the date and the time of a line that has a form
StampOf(line) ==
    IF FormOf(line) = "bracket" THEN bracketMatch(line)
    ELSE IF FormOf(line) = "dash" THEN dashMatch(line)
    ELSE systemDashMatch(line)

\* C17: a line that has the bracket, the dash or the system form and whose
\* date and time fail normalization gives a failed line with the reason
\* 'Invalid date format': never a message, never 'No matching pattern'.  The
\* first form a line has decides: with a valid date it gives a message,
\* which is a system message exactly for the system form, and a line
\* without a form gives 'No matching pattern'.
C17_InvalidDateNeverDemoted ==
    last.op = "parse"
        => \A i \in 1..Len(InputLines) \ BlankLines :
              LET line == trim(InputLines[i])
                  diag == {k \in 1..Len(last.ret.failedLines) :
                              last.ret.failedLines[k].lineNumber = i}
                  events == {k \in 1..Len(last.ret.messages) :
                                last.ret.messages[k].raw = line}
                  reason == IF FormOf(line) = "none"
                            THEN "No matching pattern"
                            ELSE "Invalid date format"
              IN  IF \/ FormOf(line) = "none"
                     \/ parseDate(StampOf(line).date, StampOf(line).time)
                            = None
                  THEN /\ events = {}
                       /\ Cardinality(diag) = 1
                       /\ \A k \in diag :
                             /\ last.ret.failedLines[k].reason = reason
                             /\ last.ret.failedLines[k].content = line
                  ELSE /\ diag = {}
                       /\ events # {}
                       /\ \A k \in events :
                             last.ret.messages[k].isSystem
                                 = (FormOf(line) = "system")

\* a line of the dash form and a line of the system form, both with a day
\* their month does not have, have been parsed
C17_Witness ==
    /\ last.op = "parse"
    /\ last.arg = joinLines(<<SampleLine.dashBadDate,
                              SampleLine.systemBadDate>>)
    /\ Len(last.ret.failedLines) = 2
    /\ \A k \in 1..2 :
          last.ret.failedLines[k].reason = "Invalid date format"
    /\ last.ret.messages = <<>>

\* C18: within one parse the messages are in the order of the lines they
\* come from, the failed lines are in line order, and the lineNumber of a
\* failed line is the 1-based position of its line in the text, blank and
\* parsed lines counted.
C18_OrderAndLineNumbers ==
    last.op = "parse"
        => LET diag == last.ret.failedLines
               failedAt == {diag[k].lineNumber : k \in 1..Len(diag)}
               eventLines == (1..Len(InputLines)) \ (BlankLines \cup failedAt)
               \* the j-th smallest line number of a message
               Nth(j) == CHOOSE i \in eventLines :
                            Cardinality({x \in eventLines : x < i}) = j - 1
           IN  /\ \A k \in 1..Len(diag) :
                     /\ diag[k].lineNumber \in 1..Len(InputLines)
                     /\ diag[k].content = trim(InputLines[diag[k].lineNumber])
               /\ \A k \in 1..(Len(diag) - 1) :
                     diag[k].lineNumber < diag[k + 1].lineNumber
               /\ Len(last.ret.messages) = Cardinality(eventLines)
               /\ \A j \in 1..Len(last.ret.messages) :
                     last.ret.messages[j].raw
                         = trim(InputLines[Nth(j)])

\* a line that fails has been parsed after a line that gave a message: its
\* lineNumber is 2
C18_Witness ==
    /\ last.op = "parse"
    /\ Len(last.ret.messages) = 1
    /\ Len(last.ret.failedLines) = 1
    /\ last.ret.failedLines[1].lineNumber = 2

\* the messages and the failed lines of the lines from i on, each parsed
\* alone as a transcript of one line
RECURSIVE LineByLine(_, _)
LineByLine(lines, i) ==
    IF i > Len(lines) THEN [messages |-> <<>>, failedLines |-> <<>>]
    ELSE LET one == parse(lines[i])
             rest == LineByLine(lines, i + 1)
         IN  [messages |-> one.messages \o rest.messages,
              failedLines |->
                  [k \in 1..Len(one.failedLines) |->
                      [one.failedLines[k] EXCEPT !.lineNumber = i]]
                  \o rest.failedLines]

\* C19: the outcome of a line depends on its own text only: parsing the
\* transcript gives the messages and the failed lines, with their reasons,
\* that parsing each line alone gives, so a line that fails neither ends
\* the pass nor changes or drops the message of another line.
C19_LinesAreIndependent ==
    last.op = "parse"
        => /\ last.ret.messages = LineByLine(InputLines, 1).messages
           /\ last.ret.failedLines = LineByLine(InputLines, 1).failedLines

\* a line that gave a message has been parsed after a line that failed
C19_Witness ==
    /\ last.op = "parse"
    /\ Len(last.ret.failedLines) = 1
    /\ last.ret.failedLines[1].lineNumber = 1
    /\ Len(last.ret.messages) = 1

\* C20 as stated: when parseDate succeeds, the year, month, day, hour,
\* minute and second of the Date it returns are the written ones (after the
\* mapping of 2-digit years and of AM/PM), and a day, month, hour, minute or
\* second out of its range gives null.
C20_NoRolledOverValue ==
    last.op = "parseDate"
        => LET d == last.arg.date
               t == last.arg.time
               year == IF d.year.digits = 2
                       THEN d.year.n + (IF d.year.n < 50 THEN 2000 ELSE 1900)
                       ELSE d.year.n
               hour == IF t.period = "PM" /\ t.hour # 12 THEN t.hour + 12
                       ELSE IF t.period = "AM" /\ t.hour = 12 THEN 0
                       ELSE t.hour
               second == IF t.second = None THEN 0 ELSE t.second[1]
               inRange == /\ d.month \in 1..12
                          /\ d.day \in 1..daysInMonth(year, d.month)
                          /\ hour \in 0..23
                          /\ t.minute \in 0..59
                          /\ second \in 0..59
           IN  /\ last.ret # None =>
                     last.ret[1] = [year |-> year, month |-> d.month - 1,
                                    date |-> d.day, hours |-> hour,
                                    minutes |-> t.minute, seconds |-> second]
               /\ ~inRange => last.ret = None


\* C21 as stated: when parseDate succeeds for a time with an AM or PM suffix,
\* the hour of the Date is 0 for 12 AM, 12 for 12 PM, h + 12 for h PM and h
\* for h AM with h in 1..11; for a time without a suffix it is the hour
\* written.
C21_TwelveHourConversion ==
    (last.op = "parseDate" /\ last.ret # None)
        => LET t == last.arg.time
               hours == last.ret[1].hours
           IN  /\ (t.period = "AM" /\ t.hour = 12) => hours = 0
               /\ (t.period = "PM" /\ t.hour = 12) => hours = 12
               /\ (t.period = "PM" /\ t.hour \in 1..11) => hours = t.hour + 12
               /\ (t.period = "AM" /\ t.hour \in 1..11) => hours = t.hour
               /\ t.period = "" => hours = t.hour

\* C22 as stated: when parseDate succeeds, the day is the first and the
\* month the second number of the date, a year written with 2 digits is
\* 2000 + y for y < 50 and 1900 + y otherwise, and a year written with 4
\* digits is the year of the Date.
C22_FourDigitYearKept ==
    (last.op = "parseDate" /\ last.ret # None)
        => LET d == last.arg.date
               date == last.ret[1]
           IN  /\ date.date = d.day
               /\ date.month = d.month - 1
               /\ d.year.digits = 2
                     => /\ date.year = d.year.n
                                        + (IF d.year.n < 50 THEN 2000 ELSE 1900)
                        /\ date.year \in 1950..2049
               /\ d.year.digits = 4 => date.year = d.year.n

\* C22: when parseDate succeeds, the day is the first and the month the
\* second number of the date; a year of value y below 100, written with 2
\* digits or padded to 4, is 2000 + y for y < 50 and 1900 + y otherwise, so
\* that it lands in 1950..2049, and a year of value 100 or more is the year
\* of the Date.  A date and a time that are in range do succeed.
C22_YearBelowHundredMapped ==
    last.op = "parseDate"
        => LET d == last.arg.date
               t == last.arg.time
               year == IF d.year.n < 100
                       THEN d.year.n + (IF d.year.n < 50 THEN 2000 ELSE 1900)
                       ELSE d.year.n
               inRange == /\ d.month \in 1..12
                          /\ d.day \in 1..daysInMonth(year, d.month)
                          /\ t.hour \in 0..11
                          /\ t.minute \in 0..59
                          /\ t.second \in {None, Some(30)}
           IN  /\ last.ret # None
                     => /\ last.ret[1].date = d.day
                        /\ last.ret[1].month = d.month - 1
                        /\ last.ret[1].year = year
                        /\ d.year.n < 100 => last.ret[1].year \in 1950..2049
               /\ inRange => last.ret # None

\* a year written 49 has given 2049, and the year written 0024 has given
\* 2024
C22_Witness ==
    /\ last.op = "parseDate"
    /\ last.ret # None
    /\ \/ last.arg.date.year = [n |-> 49, digits |-> 2]
          /\ last.ret[1].year = 2049
       \/ last.arg.date.year = [n |-> 24, digits |-> 4]
          /\ last.ret[1].year = 2024


\* C23: extractMediaInfo handles a body by the earliest case that fits: a
\* body with an attachment marker gets the trimmed name of the leftmost
\* marker as filename and the body without that marker; else a body that
\* starts with a filename of a known extension gets that filename and the
\* body without it; else a body with an omitted phrase gets kind omitted,
\* no filename and the body as it is; else there is no media, no filename
\* and no kind.
C23_EarliestCaseApplies ==
    last.op = "extractMediaInfo"
        => LET text == last.arg
               info == last.ret
               markers == {i \in 1..Len(text) : attachmentAt(text, i).ok}
               leading == filenameMatch(text)
               cut(m) == SubSeq(text, 1, m.start - 1) \o From(text, m.end + 1)
               leftmost(i) == [start |-> i, end |-> attachmentAt(text, i).end,
                               name |-> attachmentAt(text, i).name]
               attached(m) ==
                   /\ info.hasMedia
                   /\ info.filename = Some(trim(m.name))
                   /\ info.text = trim(cut(m))
                   /\ Len(info.text) < Len(text)
           IN  IF markers # {}
               THEN attached(leftmost(CHOOSE i \in markers :
                                         \A k \in markers : i <= k))
               ELSE IF /\ leading # <<>>
                       /\ toLowerCase(splitPop(leading, ".")) \in DOMAIN mediaTypes
               THEN /\ info.hasMedia
                    /\ info.filename = Some(leading)
                    /\ info.text = trim(From(text, Len(leading) + 1))
               ELSE IF mediaOmittedTest(text)
               THEN /\ info.hasMedia
                    /\ info.filename = None
                    /\ info.type = "omitted"
                    /\ info.text = text
               ELSE /\ ~info.hasMedia
                    /\ info.filename = None
                    /\ info.type = "null"
                    /\ info.text = text

\* a body that starts with a filename of a known extension, holds an omitted
\* phrase and ends with a marker was handled as an attachment
C23_Witness ==
    /\ last.op = "extractMediaInfo"
    /\ filenameMatch(last.arg) = <<"I","M","G","-","1",".","J","P","G">>
    /\ mediaOmittedTest(last.arg)
    /\ \E i \in 1..Len(last.arg) : attachmentAt(last.arg, i).ok
    /\ last.ret.filename = Some(<<"c","l","i","p",".","m","p","4">>)
    /\ last.ret.type = "video"
    /\ last.ret.text = <<"I","M","G","-","1",".","J","P","G"," ","i","m","a","g",
                         "e"," ","o","m","i","t","t","e","d">>

\* C24 as stated: both getMediaType functions give a filename the kind the
\* table lists for its extension in lower case, and the kind file for every
\* other extension.
C24_TableFollowedExactly ==
    (last.op \in {"getMediaType", "MediaHandler.getMediaType"} /\ last.arg # <<>>)
        => LET ext == toLowerCase(splitPop(last.arg, "."))
               kinds ==
                   [image |-> { <<"j","p","g">>, <<"j","p","e","g">>,
                                <<"p","n","g">>, <<"g","i","f">>,
                                <<"w","e","b","p">> },
                    video |-> { <<"m","p","4">>, <<"3","g","p">>,
                                <<"m","o","v">>, <<"a","v","i">>,
                                <<"m","k","v">>, <<"w","e","b","m">> },
                    audio |-> { <<"o","p","u","s">>, <<"m","p","3">>,
                                <<"a","a","c">>, <<"m","4","a">>,
                                <<"w","a","v">> },
                    document |-> { <<"p","d","f">>, <<"d","o","c">>,
                                   <<"d","o","c","x">>, <<"x","l","s">>,
                                   <<"x","l","s","x">>, <<"p","p","t">>,
                                   <<"p","p","t","x">>, <<"t","x","t">> },
                    contact |-> { <<"v","c","f">> }]
               listed == {kind \in DOMAIN kinds : ext \in kinds[kind]}
           IN  IF listed # {} THEN last.ret \in listed ELSE last.ret = "file"


\* C25 as stated: getParticipants, and the participants of calculateStats,
\* are the senders of the messages that are no system messages, each once,
\* in ascending order; no such sender is left out.
C25_NoSenderLeftOut ==
    last.op \in {"getParticipants", "calculateStats"}
        => LET participants == IF last.op = "getParticipants" THEN last.ret
                               ELSE last.ret.participants
               senders == {last.arg[i].sender :
                               i \in {k \in DOMAIN last.arg :
                                          ~last.arg[k].isSystem}}
           IN  /\ {participants[i] : i \in DOMAIN participants} = senders
               /\ Len(participants) = Cardinality(senders)
               /\ \A i, j \in DOMAIN participants :
                      i < j => before(participants[i], participants[j])


\* C26: getMemoryEstimate returns two bytes for every character of the
\* transcript plus the size of every retained media payload; a resolve,
\* whether it hits the cache, creates a URL or evicts one, and
\* evictFromCache leave the estimate as it is; and a resolve evicts exactly
\* when it creates a URL while the cache holds maxCacheSize entries,
\* whatever the estimate.
C26_EstimateApartFromCache ==
    /\ [](last.op = "getMemoryEstimate"
             => last.ret
                  = (IF chatContent = None THEN 0 ELSE 2 * Len(chatContent[1]))
                    + Cardinality(UNION {{<<name, i>> :
                                             i \in 1..Len(mediaFiles[name].bytes)} :
                                         name \in DOMAIN mediaFiles}))
    /\ [][last'.op \in {"getMediaURL", "evictFromCache"}
             => /\ getMemoryEstimate(Self)' = getMemoryEstimate(Self)
                /\ last'.op = "getMediaURL"
                     => (Evicting' <=> /\ created' = created + 1
                                       /\ Cardinality(DOMAIN cache)
                                              >= maxCacheSize)]_vars

\* the estimate of the first archive, 2 characters and 6 bytes of payload,
\* has been asked for while the cache is full and a URL of an entry that
\* left the cache is revoked
C26_Witness ==
    /\ last.op = "getMemoryEstimate"
    /\ last.ret = 10
    /\ Live # 1..created
    /\ Cardinality(DOMAIN cache) = maxCacheSize


\* the callback is in the Set of the event
SubscribedIn(map, event, callback) ==
    /\ event \in DOMAIN map
    /\ \E i \in 1..Len(map[event]) : map[event][i] = callback
Subscribed(event, callback) == SubscribedIn(subscribers, event, callback)
\* the calls of the callback the last operation made
CallsOf(callback) ==
    Cardinality({i \in 1..Len(calls) : calls[i].callback = callback})
\* the operations that emit, and the event each emits
Emitting == {"emit", "setMessages", "applyFilter", "clearFilter", "clear"}
EventOf(op, arg) ==
    CASE op = "emit" -> arg
      [] op = "setMessages" -> "messages:changed"
      [] op \in {"applyFilter", "clearFilter"} -> "filter:applied"
      [] op = "clear" -> "state:cleared"

\* C27: a call of the unsubscribe function of an event and a callback takes
\* that callback, and no other, out of the subscribers of that event; only
\* subscribe puts it back; and an emit of an event calls every callback
\* subscribed to it once and no callback that is not subscribed.
C27_UnsubscribedNotInvoked ==
    [][/\ last'.op = "unsubscribe"
            => /\ ~SubscribedIn(subscribers', last'.arg[1], last'.arg[2])
               /\ \A event \in Events : \A callback \in Callbacks :
                      <<event, callback>> # last'.arg
                          => Subscribed(event, callback)'
                                 = Subscribed(event, callback)
       /\ \A event \in Events : \A callback \in Callbacks :
              (~Subscribed(event, callback) /\ Subscribed(event, callback)')
                  => last'.op = "subscribe" /\ last'.arg = <<event, callback>>
       /\ last'.op \in Emitting
            => \A callback \in Callbacks :
                   CallsOf(callback)'
                       = IF Subscribed(EventOf(last'.op, last'.arg), callback)
                         THEN 1 ELSE 0]_vars

\* the spy was subscribed to the event of the last operation and has
\* unsubscribed: the operation has called the other subscriber and not the
\* spy
C27_Witness ==
    /\ last.op \in Emitting
    /\ <<EventOf(last.op, last.arg), "spy">> \in unsubscribes
    /\ ~Subscribed(EventOf(last.op, last.arg), "spy")
    /\ Subscribed(EventOf(last.op, last.arg), "thrower")
    /\ Len(calls) = 1
    /\ calls[1].callback = "thrower"

\* C28: when a callback has thrown during an operation that emits, every
\* callback subscribed to the event has still been called once, no
\* exception has left the operation, and the state holds what the operation
\* stored.
C28_ThrowingSubscriberContained ==
    (last.op \in Emitting /\ Subscribed(EventOf(last.op, last.arg), "thrower"))
        => /\ \A callback \in Callbacks :
                  Subscribed(EventOf(last.op, last.arg), callback)
                      => CallsOf(callback) = 1
           /\ \E i \in 1..Len(calls) : calls[i].threw
           /\ ~last.ret.thrown
           /\ last.op = "setMessages"
                => /\ state.messages = last.arg
                   /\ state.stats = calculateStats(last.arg)
           /\ last.op = "applyFilter"
                => \A k \in DOMAIN last.arg : state.filter[k] = last.arg[k]
           /\ last.op = "clearFilter" /\ last.arg = "undefined"
                => state.filter = InitialState.filter
           /\ last.op = "clear" => state = InitialState

\* setMessages has called the throwing callback first and the spy after it,
\* and the messages are stored
C28_Witness ==
    /\ last.op = "setMessages"
    /\ last.arg # <<>>
    /\ Len(calls) = 2
    /\ calls[1].callback = "thrower"
    /\ calls[1].threw
    /\ calls[2].callback = "spy"
    /\ state.messages = last.arg

\* C29: setMessages, applyFilter, clearFilter and clear each emit one event,
\* messages:changed, filter:applied, filter:applied and state:cleared; every
\* callback is called with the state already updated, and the counts of
\* the payload are the lengths of the filtered and of the full list, the
\* first at most the second.
C29_OneEventAfterUpdate ==
    last.op \in Emitting \ {"emit"}
        => /\ last.ret.emitted = <<EventOf(last.op, last.arg)>>
           /\ \A i \in 1..Len(calls) :
                  /\ calls[i].event = EventOf(last.op, last.arg)
                  /\ calls[i].seen = state
                  /\ IF last.op = "clear" THEN calls[i].data = None
                     ELSE /\ calls[i].data.messages = state.filteredMessages
                          /\ calls[i].data.filteredCount
                                 = Len(state.filteredMessages)
                          /\ calls[i].data.totalCount = Len(state.messages)
                          /\ calls[i].data.filteredCount
                                 <= calls[i].data.totalCount
           /\ last.op = "setMessages" => state.messages = last.arg
           /\ last.op = "clear" => state = InitialState

\* applyFilter has called a callback with a payload of fewer filtered
\* messages than messages
C29_Witness ==
    /\ last.op = "applyFilter"
    /\ Len(calls) >= 1
    /\ calls[1].event = "filter:applied"
    /\ calls[1].data.filteredCount = 1
    /\ calls[1].data.totalCount = 3
    /\ calls[1].seen.filter.text = <<"B","O">>

\* C30: applyFilter sets the fields of the filter its argument names and
\* leaves the others, the messages and the statistics as they were, and
\* the filtered list is the messages under the new filter;
\* clearFilter(name) sets that field to its default and clearFilter() all
\* three.
C30_OnlyNamedFieldsChange ==
    [][/\ last'.op \in {"applyFilter", "clearFilter"}
            => /\ state'.messages = state.messages
               /\ state'.stats = state.stats
               /\ DOMAIN state'.filter = {"text", "type", "dateRange"}
               /\ state'.filteredMessages
                      = filterMessages(state.messages, state'.filter)
       /\ last'.op = "applyFilter"
            => \A k \in DOMAIN state.filter :
                   state'.filter[k] = IF k \in DOMAIN last'.arg
                                      THEN last'.arg[k] ELSE state.filter[k]
       /\ last'.op = "clearFilter"
            => \A k \in DOMAIN state.filter :
                   state'.filter[k] = IF last'.arg \in {k, "undefined"}
                                      THEN InitialState.filter[k]
                                      ELSE state.filter[k]]_vars

\* clearFilter('text') has reset the text and left a type and a date range
\* that are not the defaults
C30_Witness ==
    /\ last.op = "clearFilter"
    /\ last.arg = "text"
    /\ state.filter.text = <<>>
    /\ state.filter.type = "media"
    /\ state.filter.dateRange # None
    /\ state.messages # <<>>


\* C31: filterMessages returns the messages that meet every active
\* criterion, in the order of the list: the text, if not empty, is found
\* in the body or the sender whatever the letter case; the type media
\* asks for an image, a video or an audio and the type documents for a
\* document or a file; the date lies within the range, both ends included.
\* Without an active criterion it returns the list.
C31_AllActiveCriteria ==
    last.op = "filterMessages"
        => LET messages == last.arg.messages
               filter == last.arg.filter
               lower(s) == toLowerCase(s)
               found(s) ==
                   \E i \in 1..(Len(s) - Len(filter.text) + 1) :
                       \A k \in 1..Len(filter.text) :
                           lower(s)[i + k - 1] = lower(filter.text)[k]
               meets(msg) ==
                   /\ filter.text = <<>> \/ found(msg.text) \/ found(msg.sender)
                   /\ CASE filter.type = "media" ->
                               /\ msg.hasMedia
                               /\ msg.mediaType \in {"image", "video", "audio"}
                        [] filter.type = "documents" ->
                               /\ msg.hasMedia
                               /\ msg.mediaType \in {"document", "file"}
                        [] filter.type = "all" -> TRUE
                   /\ \/ filter.dateRange = None
                      \/ /\ msg.date # None
                         /\ msg.date[1] \in filter.dateRange[1].start
                                              ..filter.dateRange[1].end
               keep == {i \in 1..Len(messages) : meets(messages[i])}
               nth(k) == CHOOSE i \in keep :
                             Cardinality({j \in keep : j <= i}) = k
           IN  /\ Len(last.ret) = Cardinality(keep)
               /\ \A k \in 1..Len(last.ret) : last.ret[k] = messages[nth(k)]
               /\ filter = InitialState.filter => last.ret = messages

\* a text in another letter case and the type documents are both active:
\* of three messages the one of al, a file, is returned and the image of
\* Bob and the message of Alice are not
C31_Witness ==
    /\ last.op = "filterMessages"
    /\ last.arg.filter.text = <<"a","l">>
    /\ last.arg.filter.type = "documents"
    /\ last.arg.messages
          = <<SampleMessage.alice, SampleMessage.al, SampleMessage.bob>>
    /\ last.ret = <<SampleMessage.al>>


\* C32: clear() leaves the state the constructor built, emits
\* state:cleared once and calls the callbacks subscribed to it, and leaves
\* the subscribers as they were; the operation after it that emits still
\* calls every callback subscribed to its event.
C32_ClearKeepsSubscriptions ==
    [][/\ last'.op = "clear"
            => /\ state' = InitialState
               /\ last'.ret.emitted = <<"state:cleared">>
               /\ subscribers' = subscribers
               /\ \A callback \in Callbacks :
                      CallsOf(callback)'
                          = IF Subscribed("state:cleared", callback)
                            THEN 1 ELSE 0
       /\ (last.op = "clear" /\ last'.op \in Emitting)
            => \A callback \in Callbacks :
                   Subscribed(EventOf(last'.op, last'.arg), callback)
                       => CallsOf(callback)' = 1]_vars

\* clear() has called the spy subscribed to state:cleared, and the
\* callback subscribed to messages:changed is still subscribed
C32_Witness ==
    /\ last.op = "clear"
    /\ state = InitialState
    /\ Len(calls) = 1
    /\ calls[1].callback = "spy"
    /\ calls[1].event = "state:cleared"
    /\ Subscribed("messages:changed", "thrower")


\* C33: createMediaElement calls hasMedia first and getMediaURL only for a
\* filename the archive holds, for which it shows the URL; for any other
\* filename it builds the missing element, creates and revokes no URL and
\* leaves the cache and its order as they were.
C33_MissingNeverResolved ==
    /\ [](last.op = "createMediaElement"
             => IF last.arg \in DOMAIN mediaFiles
                THEN /\ last.ret.calls = <<"hasMedia", "getMediaURL">>
                     /\ last.ret.element # "missing"
                     /\ last.ret.url # NoUrl
                     /\ last.ret.url = cache[last.arg]
                ELSE /\ last.ret.calls = <<"hasMedia">>
                     /\ last.ret.element = "missing"
                     /\ last.ret.url = NoUrl
                     /\ urlLog = <<>>)
    /\ [][(last'.op = "createMediaElement"
              /\ last'.arg \notin DOMAIN mediaFiles)
             => UNCHANGED <<cache, accessOrder, created, revoked,
                            mediaFiles>>]_vars

\* a file the loaded archive does not hold has been rendered as missing
\* while the cache holds URLs
C33_Witness ==
    /\ last.op = "createMediaElement"
    /\ last.arg = fn.q_gif
    /\ last.ret.element = "missing"
    /\ isLoaded
    /\ Cardinality(DOMAIN cache) = maxCacheSize


\* the handler after loadZip(file) alone, on a handler just constructed
LoadedAlone(file) ==
    loadZipAfterAwait([Self EXCEPT !.cache = <<>>, !.accessOrder = <<>>,
                                   !.mediaFiles = <<>>,
                                   !.chatContent = None,
                                   !.chatFilename = None,
                                   !.isLoaded = FALSE],
                      file, TRUE)

\* transcript and media entries are those of the one archive
HoldsOnly(file) ==
    /\ mediaFiles = LoadedAlone(file).mediaFiles
    /\ chatContent = LoadedAlone(file).chatContent
    /\ chatFilename = LoadedAlone(file).chatFilename
    /\ isLoaded

\* C34: with loadZip calls overlapping, in every state the transcript and
\* the media entries are those of one archive (or of none, before the first
\* load), and every cached handle is live and stands for a media entry held;
\* when the bytes of a readable archive arrive the handler is left as by
\* loading that archive alone, with every earlier handle released, whatever
\* call is still suspended; bytes that are no archive leave it untouched.
C34_OverlappingLoadsNeverMix ==
    /\ []((\/ \E file \in {FileA, FileB} : HoldsOnly(file)
           \/ (mediaFiles = <<>> /\ chatContent = None /\ ~isLoaded))
          /\ DOMAIN cache \subseteq DOMAIN mediaFiles
          /\ \A k \in DOMAIN cache : cache[k] \in Live)
    /\ []((last.op = "loadZip" /\ last.ret.success)
             => /\ HoldsOnly(last.arg)
                /\ cache = <<>>
                /\ accessOrder = <<>>
                /\ Live = {})
    /\ [][(last'.op = "loadZip" /\ ~last'.ret.success)
             => UNCHANGED <<mediaFiles, chatContent, chatFilename, isLoaded,
                            cache, accessOrder, created, revoked>>]_vars

\* the bytes of archive A have arrived while the load of B that overlaps it
\* is still suspended, and the handles of the archive before are released
C34_Witness ==
    /\ last.op = "loadZip"
    /\ last.arg = FileA
    /\ last.ret.success
    /\ pending[FileB] > 0
    /\ created > 0
    /\ HoldsOnly(FileA)


\* C35: in every state the access-order list of the cache holds exactly the
\* keys of the cache map, each of them once.
C35_OrderListsCachedKeys ==
    /\ {accessOrder[i] : i \in 1..Len(accessOrder)} = DOMAIN cache
    /\ Len(accessOrder) = Cardinality(DOMAIN cache)

\* evictFromCache has removed a cached key and one key stays cached, after
\* three sets of which the first URL has been revoked
C35_Witness ==
    /\ last.op = "evictFromCache"
    /\ Len(accessOrder) = 1
    /\ Cardinality(Live) = 1
    /\ created = 3
    /\ revoked[1] = 1


\* C36 as stated: after every operation of the state manager the filtered
\* list stored is filterMessages of the messages stored under the filter
\* stored.
C36_FilteredListFollowsFilter ==
    state.filteredMessages = filterMessages(state.messages, state.filter)

\* what does hold: the filtered list follows the filter after setMessages,
\* applyFilter, clearFilter and clear
C36_FollowsAfterAllButLoad ==
    last.op \in {"setMessages", "applyFilter", "clearFilter", "clear"}
        => state.filteredMessages
               = filterMessages(state.messages, state.filter)

\* loadFromStorage has returned true and the filtered list holds a message
\* the filter now stored rejects
C36_StaleAfterLoad ==
    /\ last.op = "loadFromStorage"
    /\ last.ret.returned
    /\ state.filter.type = "media"
    /\ state.filteredMessages = state.messages
    /\ Len(filterMessages(state.messages, state.filter)) < Len(state.messages)


\* C37 as stated: for every filename a classifier is applied to, the parser
\* and the media handler give the same kind, and isMediaFile is true exactly
\* when that kind is not the fallback file.
C37_ClassifiersAgree ==
    (last.op \in {"getMediaType", "MediaHandler.getMediaType", "isMediaFile"}
         /\ last.arg \in SampleFilenames)
        => /\ getMediaType(last.arg) = MediaHandler_getMediaType(last.arg)
           /\ isMediaFile(last.arg) <=> getMediaType(last.arg) # "file"

\* what does hold on the extensions the table of the parser lists, vcf apart:
\* the two kinds are equal and isMediaFile is true
C37_AgreeOnParserTable ==
    (last.op \in {"getMediaType", "MediaHandler.getMediaType", "isMediaFile"}
         /\ last.arg # <<>>
         /\ toLowerCase(splitPop(last.arg, ".")) \in
                DOMAIN mediaTypes \ {<<"v","c","f">>})
        => /\ getMediaType(last.arg) = MediaHandler_getMediaType(last.arg)
           /\ isMediaFile(last.arg)

\* a picture the archive handler does not keep and the parser calls a file,
\* which the media handler would render as an image
C37_Disagreement ==
    /\ last.op = "isMediaFile"
    /\ ~last.ret
    /\ getMediaType(last.arg) = "file"
    /\ MediaHandler_getMediaType(last.arg) = "image"


\* the events parse has returned
Events38 == {last.ret.messages[i] : i \in 1..Len(last.ret.messages)}

\* C38 as stated: every event parse produces has a valid timestamp; without
\* media its kind and its filename are null; with the kind omitted its
\* filename is null; with a filename it has media and its kind is the kind
\* the classifier gives the filename; and it is a system event exactly when
\* its line has the system form, and then its sender is System and it has no
\* media.
C38_EventsWellFormed ==
    last.op = "parse"
        => \A e \in Events38 :
              /\ DOMAIN e.date = {"year", "month", "date", "hours", "minutes",
                                  "seconds"}
              /\ e.date.month \in 0..11 /\ e.date.date \in 1..31
              /\ e.date.hours \in 0..23 /\ e.date.minutes \in 0..59
              /\ ~e.hasMedia
                    => (e.mediaType = "null" /\ e.mediaFilename = None)
              /\ e.mediaType = "omitted" => e.mediaFilename = None
              /\ e.mediaFilename # None
                    => /\ e.hasMedia
                       /\ e.mediaType = getMediaType(e.mediaFilename[1])
              /\ e.isSystem <=> FormOf(e.raw) = "system"
              /\ e.isSystem
                    => (e.sender = <<"S","y","s","t","e","m">> /\ ~e.hasMedia)

\* what does hold: all of it but the null filename of the kind omitted,
\* which holds for the events whose attachment marker names something
C38_WellFormedButOmitted ==
    last.op = "parse"
        => \A e \in Events38 :
              /\ e.date.month \in 0..11 /\ e.date.date \in 1..31
              /\ e.date.hours \in 0..23 /\ e.date.minutes \in 0..59
              /\ ~e.hasMedia
                    => (e.mediaType = "null" /\ e.mediaFilename = None)
              /\ (e.mediaType = "omitted" /\ e.raw # EventLine.attachedNothing)
                    => e.mediaFilename = None
              /\ e.mediaFilename # None
                    => /\ e.hasMedia
                       /\ e.mediaType = getMediaType(e.mediaFilename[1])
              /\ e.isSystem <=> FormOf(e.raw) = "system"
              /\ e.isSystem
                    => (e.sender = <<"S","y","s","t","e","m">> /\ ~e.hasMedia)

\* parse has produced an event of the kind omitted whose filename is the
\* empty string
C38_OmittedWithFilename ==
    /\ last.op = "parse"
    /\ \E e \in Events38 :
           /\ e.mediaType = "omitted"
           /\ e.hasMedia
           /\ e.mediaFilename = Some(<<>>)

====
